---- MODULE Spec2Model ----
(***************************************************************************)
(* A model of the recognition-and-scoring engine of the OMR scanner        *)
(* (backend/omr_utils.py, class OMRProcessor).                             *)
(*                                                                         *)
(* The call chain of process_omr_sheet is a state machine whose position   *)
(* is pc: load -> preprocess -> detect -> analyze -> evaluate -> done, or  *)
(* raised when a stage raises.  Each stage is one action.  The stages are  *)
(* pure functions, modelled as operators that are computed the way the     *)
(* code computes them (loops are recursive operators with the loop's       *)
(* accumulators as parameters).                                            *)
(*                                                                         *)
(* Representation:                                                         *)
(*   - a Python dict is a TLA+ function whose DOMAIN is the key set;       *)
(*   - a Python list is a sequence;                                        *)
(*   - a float that the code produces by dividing two integers is the      *)
(*     exact rational [num, den]; the inputs are far too small for the     *)
(*     binary rounding of a double to merge or reorder two of them;        *)
(*   - the percentage of a result, round(x, 2), is held in hundredths      *)
(*     (33.33 is 3333);                                                    *)
(*   - the binary map that cv2 produces is summarised by what the code     *)
(*     reads from it: the external contours found in it (bounding box and  *)
(*     area) and, for each bounding box, the number of pixels equal to     *)
(*     255 inside it.                                                      *)
(***************************************************************************)
EXTENDS Integers, Sequences, FiniteSets, TLC

VARIABLES
    self,             \* the fields of the OMRProcessor instance
    pc,               \* position in process_omr_sheet
    sheet,            \* the file at image_path: what cv2.imread finds there
    answer_key,       \* the answer_key argument (dict question -> letter)
    image,            \* the decoded image (local of process_omr_sheet)
    processed_image,  \* the binary map returned by _preprocess_image
    bubbles,          \* the list returned by _detect_bubbles
    bubble_rows,      \* the rows returned by _group_bubbles_by_rows
    marked_answers,   \* the dict returned by _analyze_bubbles
    result,           \* the OMRResult returned by _evaluate_answers
    raised,           \* the exception that left process_omr_sheet, or "none"
    history,          \* the calls of process_omr_sheet that have returned
    other,            \* the locals of a second, concurrent process_omr_sheet
    http,             \* the /upload handler of main.py and its directories
    batch             \* process_all_sheets of batch_omr_app.py and its session

\* the locals of one call of process_omr_sheet
locals == <<pc, sheet, answer_key, image, processed_image, bubbles,
            bubble_rows, marked_answers, result, raised>>

\* what belongs to the callers of process_omr_sheet
callers == <<history, other, http, batch>>

vars == <<self, locals, callers>>

----------------------------------------------------------------------------
(* Bounds of the model.                                                    *)

\* questions of an answer key are "1" .. str(MaxKey)
MaxKey == 3
\* rows on a sheet in front of the row whose fills vary freely
MaxPrefix == 1
\* bubbles of the freely varying row that are not simply blank
MaxMarked == 2

----------------------------------------------------------------------------
(* Configuration set by OMRProcessor.__init__ and literals of the code.    *)

questions_per_row == 5
\* bubble_threshold = 0.65, as the rational 65/100
bubble_threshold_num == 65
bubble_threshold_den == 100
min_contour_area == 20
max_contour_area == 400
\* "abs(bubble['y'] - current_y) < 30"
row_tolerance == 30

\* the fields of a processor after __init__
init_self ==
    [questions_per_row |-> questions_per_row,
     total_questions |-> 10,
     bubble_threshold |-> [num |-> bubble_threshold_num,
                           den |-> bubble_threshold_den],
     gaussian_blur_kernel |-> <<5, 5>>,
     threshold_value |-> 180,
     min_contour_area |-> min_contour_area,
     max_contour_area |-> max_contour_area]

----------------------------------------------------------------------------
(* Python values.                                                          *)

Digits == <<"0", "1", "2", "3", "4", "5", "6", "7", "8", "9">>

\* str(n) of a non-negative int: its decimal digits
RECURSIVE str(_)
str(n) == IF n < 10 THEN Digits[n + 1]
          ELSE str(n \div 10) \o Digits[(n % 10) + 1]

Alphabet == <<"A", "B", "C", "D", "E", "F", "G", "H", "I", "J", "K", "L", "M",
              "N", "O", "P", "Q", "R", "S", "T", "U", "V", "W", "X", "Y", "Z">>

\* chr(ord('A') + i) for 0 <= i < 26
chr_from_A(i) == Alphabet[i + 1]

\* d.get(k, default)
dict_get(d, k, default) == IF k \in DOMAIN d THEN d[k] ELSE default

\* the empty dict {}
EmptyDict == [k \in {} |-> ""]

\* d[k] = v
dict_set(d, k, v) == [j \in (DOMAIN d) \cup {k} |-> IF j = k THEN v ELSE d[j]]

Abs(n) == IF n < 0 THEN -n ELSE n

\* a / b on ints: the quotient as a rational, or ZeroDivisionError
TrueDiv(a, b) ==
    IF b = 0 THEN [exc |-> "ZeroDivisionError", num |-> 0, den |-> 1]
    ELSE [exc |-> "none", num |-> a, den |-> b]

\* r * 100
Times100(r) == [exc |-> r.exc, num |-> r.num * 100, den |-> r.den]

\* round(r, 2) of a non-negative rational, in hundredths: the nearest
\* hundredth, an exact tie going to the even one
Round2(r) ==
    LET n == r.num * 100
        q == n \div r.den
        rem2 == 2 * (n % r.den)
    IN  IF rem2 < r.den THEN q
        ELSE IF rem2 > r.den THEN q + 1
        ELSE IF q % 2 = 0 THEN q ELSE q + 1

\* a < b on rationals with positive denominators
RatLess(a, b) == a.num * b.den < b.num * a.den

RatEq(a, b) == a.num * b.den = b.num * a.den

----------------------------------------------------------------------------
(* Lists.                                                                  *)

\* (a1, a2) < (b1, b2) on tuples of two ints
TupleLess(a, b) == a[1] < b[1] \/ (a[1] = b[1] /\ a[2] < b[2])

\* item put into a list that is sorted by key, behind every item whose key
\* is not greater (list.sort is stable)
RECURSIVE insert_by_key(_, _)
insert_by_key(sorted, item) ==
    IF sorted = <<>> THEN <<item>>
    ELSE IF TupleLess(item.key, Head(sorted).key) THEN <<item>> \o sorted
    ELSE <<Head(sorted)>> \o insert_by_key(Tail(sorted), item)

RECURSIVE sort_items(_, _)
sort_items(items, sorted) ==
    IF items = <<>> THEN sorted
    ELSE sort_items(Tail(items), insert_by_key(sorted, Head(items)))

\* the mutant of sort_by_x that leaves the row in the order it was collected
sort_by_x_skipped(row) == row

\* row.sort(key=lambda b: b['x'])
sort_by_x(row) ==
    LET items == [i \in 1..Len(row) |-> [key |-> <<row[i].x, 0>>, val |-> row[i]]]
        sorted == sort_items(items, <<>>)
    IN  [i \in 1..Len(row) |-> sorted[i].val]

\* the mutant of sort_by_y_x that keeps the order in which the contours
\* were found
keep_found_order(list) == list

\* bubbles.sort(key=lambda b: (b['y'], b['x']))
sort_by_y_x(list) ==
    LET items == [i \in 1..Len(list) |->
                     [key |-> <<list[i].y, list[i].x>>, val |-> list[i]]]
        sorted == sort_items(items, <<>>)
    IN  [i \in 1..Len(list) |-> sorted[i].val]

----------------------------------------------------------------------------
(* Load and Preprocessor: cv2.imread and OMRProcessor._preprocess_image.   *)

\* what the locals of process_omr_sheet hold before they are assigned; an
\* image is given by the binary map its adaptive threshold is
NoBinary == [contours |-> <<>>, white |-> [b \in {} |-> 0]]
NoImage == [binary |-> NoBinary]

\* the mutant of Load without the "if image is None" test
LoadUnchecked ==
    /\ pc = "load"
    /\ image' = sheet.raster
    /\ pc' = "preprocess"
    /\ UNCHANGED <<self, sheet, answer_key, processed_image, bubbles, bubble_rows,
                   marked_answers, result, raised,
                   callers>>

\* image = cv2.imread(image_path); None raises ValueError
Load ==
    /\ pc = "load"
    /\ IF sheet.decodable
       THEN /\ image' = sheet.raster
            /\ pc' = "preprocess"
            /\ raised' = raised
       ELSE /\ image' = image
            /\ pc' = "raised"
            /\ raised' = "ValueError"
    /\ UNCHANGED <<self, sheet, answer_key, processed_image, bubbles, bubble_rows,
                   marked_answers, result,
                   callers>>

\* _preprocess_image: grayscale, Gaussian blur, inverted adaptive threshold
preprocess_image(img) == img.binary

Preprocess ==
    /\ pc = "preprocess"
    /\ processed_image' = preprocess_image(image)
    /\ pc' = "detect"
    /\ UNCHANGED <<self, sheet, answer_key, image, bubbles, bubble_rows,
                   marked_answers, result, raised,
                   callers>>

----------------------------------------------------------------------------
(* Bubble Detector: OMRProcessor._detect_bubbles.                          *)

\* "self.min_contour_area < area < self.max_contour_area"; processor is the
\* self that _detect_bubbles is called on
area_accepted(processor, area) ==
    processor.min_contour_area < area /\ area < processor.max_contour_area

\* the mutant of aspect_accepted whose range is open
aspect_accepted_strict(w, h) == 7 * h < 10 * w /\ 10 * w < 13 * h

\* "0.7 <= aspect_ratio <= 1.3" for aspect_ratio = w / float(h)
aspect_accepted(w, h) == 7 * h <= 10 * w /\ 10 * w <= 13 * h

\* the dict appended for an accepted contour
bubble_of(contour) ==
    [contour |-> contour,
     x |-> contour.x, y |-> contour.y, w |-> contour.w, h |-> contour.h,
     area |-> contour.area,
     center |-> <<contour.x + (contour.w \div 2),
                  contour.y + (contour.h \div 2)>>]

\* the loop over the contours
RECURSIVE detect_loop(_, _, _)
detect_loop(processor, contours, found) ==
    IF contours = <<>> THEN found
    ELSE LET contour == Head(contours)
         IN  detect_loop(processor, Tail(contours),
                 IF /\ area_accepted(processor, contour.area)
                    /\ aspect_accepted(contour.w, contour.h)
                 THEN Append(found, bubble_of(contour))
                 ELSE found)

\* _detect_bubbles(image): cv2.findContours, the filters, the sort
detect_bubbles(processor, binary) ==
    sort_by_y_x(detect_loop(processor, binary.contours, <<>>))

Detect ==
    /\ pc = "detect"
    /\ bubbles' = detect_bubbles(self, processed_image)
    /\ pc' = "analyze"
    /\ UNCHANGED <<self, sheet, answer_key, image, processed_image, marked_answers,
                   result, raised, bubble_rows,
                   callers>>

----------------------------------------------------------------------------
(* Row Grouper: OMRProcessor._group_bubbles_by_rows.                       *)

\* the mutant of same_row whose tolerance is inclusive
same_row_inclusive(bubble, current_y) ==
    Abs(bubble.y - current_y) <= row_tolerance

\* "abs(bubble['y'] - current_y) < 30"
same_row(bubble, current_y) == Abs(bubble.y - current_y) < row_tolerance

\* "if current_row: current_row.sort(...); rows.append(current_row)"
close_row(rows, current_row) ==
    IF current_row # <<>> THEN Append(rows, sort_by_x(current_row)) ELSE rows

\* the mutant of group_loop without "Add the last row": the row that is
\* open when the list ends is not appended
RECURSIVE group_loop_forgetting_last(_, _, _, _)
group_loop_forgetting_last(rest, rows, current_row, current_y) ==
    IF rest = <<>> THEN rows
    ELSE LET bubble == Head(rest)
         IN  IF same_row(bubble, current_y)
             THEN group_loop_forgetting_last(Tail(rest), rows,
                                             Append(current_row, bubble),
                                             current_y)
             ELSE group_loop_forgetting_last(Tail(rest),
                                             close_row(rows, current_row),
                                             <<bubble>>, bubble.y)

\* the loop over bubbles[1:] and the closing of the last row
RECURSIVE group_loop(_, _, _, _)
group_loop(rest, rows, current_row, current_y) ==
    IF rest = <<>> THEN close_row(rows, current_row)
    ELSE LET bubble == Head(rest)
         IN  IF same_row(bubble, current_y)
             THEN group_loop(Tail(rest), rows,
                             Append(current_row, bubble), current_y)
             ELSE group_loop(Tail(rest), close_row(rows, current_row),
                             <<bubble>>, bubble.y)

\* the mutant of group_bubbles_by_rows without "if not bubbles: return []":
\* bubbles[0] of an empty list raises IndexError
group_bubbles_by_rows_unguarded(list) ==
    IF list = <<>> THEN [exc |-> "IndexError", rows |-> <<>>]
    ELSE [exc |-> "none",
          rows |-> group_loop(Tail(list), <<>>, <<list[1]>>, list[1].y)]

\* _group_bubbles_by_rows(bubbles): the exception it raises, or "none" and
\* the rows it returns
group_bubbles_by_rows(list) ==
    IF list = <<>> THEN [exc |-> "none", rows |-> <<>>]
    ELSE [exc |-> "none",
          rows |-> group_loop(Tail(list), <<>>, <<list[1]>>, list[1].y)]

\* a call of _group_bubbles_by_rows on its own, with the list in bubbles
Group ==
    /\ pc = "group"
    /\ LET r == group_bubbles_by_rows(bubbles)
       IN  IF r.exc = "none"
           THEN /\ bubble_rows' = r.rows
                /\ pc' = "grouped"
                /\ raised' = raised
           ELSE /\ bubble_rows' = bubble_rows
                /\ pc' = "raised"
                /\ raised' = r.exc
    /\ UNCHANGED <<self, sheet, answer_key, image, processed_image, bubbles,
                   marked_answers, result, callers>>

----------------------------------------------------------------------------
(* Answer Extractor: OMRProcessor._analyze_bubbles.                        *)

\* np.sum(image[y:y+h, x:x+w] == 255)
white_pixels(binary, x, y, w, h) == binary.white[<<x, y, w, h>>]

\* "filled_pixels / total_pixels if total_pixels > 0 else 0"
fill_percentage(binary, bubble) ==
    LET total_pixels == bubble.w * bubble.h
        filled_pixels == white_pixels(binary, bubble.x, bubble.y,
                                      bubble.w, bubble.h)
    IN  IF total_pixels > 0
        THEN [num |-> filled_pixels, den |-> total_pixels]
        ELSE [num |-> 0, den |-> 1]

\* the list bubble_scores of a row
bubble_scores_of(binary, row_bubbles) ==
    [i \in 1..Len(row_bubbles) |-> fill_percentage(binary, row_bubbles[i])]

\* max(scores) of a list that is not empty
RECURSIVE list_max(_, _)
list_max(scores, best) ==
    IF scores = <<>> THEN best
    ELSE list_max(Tail(scores),
                  IF RatLess(best, Head(scores)) THEN Head(scores) ELSE best)

\* the mutant of list_index that finds the last position of the value
list_index_last(scores, value) ==
    (CHOOSE i \in 1..Len(scores) :
        /\ RatEq(scores[i], value)
        /\ \A j \in (i + 1)..Len(scores) : ~RatEq(scores[j], value)) - 1

\* scores.index(value), 0-based: the first position of the value
list_index(scores, value) ==
    (CHOOSE i \in 1..Len(scores) :
        /\ RatEq(scores[i], value)
        /\ \A j \in 1..(i - 1) : ~RatEq(scores[j], value)) - 1

\* the mutant of exceeds_threshold that also accepts the threshold itself
reaches_threshold(max_fill) ==
    max_fill.num * self.bubble_threshold.den
        >= self.bubble_threshold.num * max_fill.den

\* "max_fill > self.bubble_threshold"
exceeds_threshold(max_fill) ==
    max_fill.num * self.bubble_threshold.den
        > self.bubble_threshold.num * max_fill.den

\* the mutant of row_is_valid that lets a row through when it has at least
\* the bubbles of a question
row_has_enough(row_bubbles) == Len(row_bubbles) >= self.questions_per_row

\* not "len(row_bubbles) != self.questions_per_row"
row_is_valid(row_bubbles) == Len(row_bubbles) = self.questions_per_row

\* the mutant of marked_letter that names the letters from B
marked_letter_shifted(marked_index) == chr_from_A(marked_index + 1)

\* "marked_letter = chr(ord('A') + marked_index)"
marked_letter(marked_index) == chr_from_A(marked_index)

\* the body of the loop over the rows: marked_answers after this row
analyze_row(binary, question_num, row_bubbles, marked) ==
    IF ~row_is_valid(row_bubbles) THEN marked
    ELSE LET bubble_scores == bubble_scores_of(binary, row_bubbles)
             max_fill == list_max(Tail(bubble_scores), Head(bubble_scores))
         IN  IF exceeds_threshold(max_fill)
             THEN dict_set(marked, str(question_num),
                      marked_letter(list_index(bubble_scores, max_fill)))
             ELSE marked

\* the mutant of analyze_loop that numbers only the valid rows (it walks
\* the rows that are left and gives a degenerate row no number)
RECURSIVE analyze_loop_numbering_valid(_, _, _, _)
analyze_loop_numbering_valid(binary, rows_left, question_num, marked) ==
    IF rows_left = <<>> THEN marked
    ELSE IF row_is_valid(Head(rows_left))
    THEN analyze_loop_numbering_valid(binary, Tail(rows_left), question_num + 1,
             analyze_row(binary, question_num, Head(rows_left), marked))
    ELSE analyze_loop_numbering_valid(binary, Tail(rows_left), question_num,
                                      marked)

\* "for question_num, row_bubbles in enumerate(bubble_rows, 1)"
RECURSIVE analyze_loop(_, _, _, _)
analyze_loop(binary, rows, question_num, marked) ==
    IF question_num > Len(rows) THEN marked
    ELSE analyze_loop(binary, rows, question_num + 1,
             analyze_row(binary, question_num, rows[question_num],
                         marked))

\* _analyze_bubbles(image, bubbles): the exception it raises, or "none" and
\* the dict it returns
analyze_bubbles(binary, list) ==
    LET grouped == group_bubbles_by_rows(list)
    IN  IF grouped.exc # "none"
        THEN [exc |-> grouped.exc, rows |-> <<>>, value |-> EmptyDict]
        ELSE [exc |-> "none",
              rows |-> grouped.rows,
              value |-> analyze_loop(binary, grouped.rows, 1, EmptyDict)]

\* the mutant of Analyze that tunes the processor: when it finds no marked
\* answer it lowers self.bubble_threshold to 0.4 for the calls to come
AnalyzeAdaptive ==
    /\ pc = "analyze"
    /\ LET r == analyze_bubbles(processed_image, bubbles)
       IN  /\ marked_answers' = r.value
           /\ bubble_rows' = r.rows
           /\ self' = IF r.value = EmptyDict
                      THEN [self EXCEPT !.bubble_threshold =
                                            [num |-> 2, den |-> 5]]
                      ELSE self
    /\ pc' = "evaluate"
    /\ UNCHANGED <<sheet, answer_key, image, processed_image, bubbles, result,
                   raised, callers>>

\* process_omr_sheet, "marked_answers = self._analyze_bubbles(...)"
Analyze ==
    /\ pc = "analyze"
    /\ LET r == analyze_bubbles(processed_image, bubbles)
       IN  IF r.exc = "none"
           THEN /\ marked_answers' = r.value
                /\ bubble_rows' = r.rows
                /\ pc' = "evaluate"
                /\ raised' = raised
           ELSE /\ marked_answers' = marked_answers
                /\ bubble_rows' = bubble_rows
                /\ pc' = "raised"
                /\ raised' = r.exc
    /\ UNCHANGED <<self, sheet, answer_key, image, processed_image, bubbles, result,
                   callers>>

----------------------------------------------------------------------------
(* Evaluator: OMRProcessor._evaluate_answers.                              *)

\* the result before any has been returned
NoResult ==
    [score |-> 0, total |-> 0, percentage |-> 0,
     marked_answers |-> EmptyDict, correct_answers |-> EmptyDict,
     result |-> EmptyDict,
     processing_info |-> [total_bubbles_detected |-> 0,
                          detection_threshold |-> <<0, 1>>,
                          image_processing |-> ""]]

\* the mutant of evaluate_one that lost the "not marked_answer" test
evaluate_one_no_blank(marked_answer, correct_answer, correct_count) ==
    IF marked_answer = correct_answer
    THEN [status |-> "correct", correct_count |-> correct_count + 1]
    ELSE [status |-> "incorrect", correct_count |-> correct_count]

\* the mutant of evaluate_one that counts every attempted question
evaluate_one_count_attempted(marked_answer, correct_answer, correct_count) ==
    IF marked_answer = ""
    THEN [status |-> "not_attempted", correct_count |-> correct_count]
    ELSE IF marked_answer = correct_answer
    THEN [status |-> "correct", correct_count |-> correct_count + 1]
    ELSE [status |-> "incorrect", correct_count |-> correct_count + 1]

\* the body of the loop over answer_key.items(): the status of one question
\* and the running count after it ("not s" of a str is s = "")
evaluate_one(marked_answer, correct_answer, correct_count) ==
    IF marked_answer = ""
    THEN [status |-> "not_attempted", correct_count |-> correct_count]
    ELSE IF marked_answer = correct_answer
    THEN [status |-> "correct", correct_count |-> correct_count + 1]
    ELSE [status |-> "incorrect", correct_count |-> correct_count]

\* the loop over answer_key.items(); todo is the questions still to visit,
\* acc the locals correct_count and result_details
RECURSIVE evaluate_loop(_, _, _, _)
evaluate_loop(todo, marked, key, acc) ==
    IF todo = {} THEN acc
    ELSE LET question_num == CHOOSE q \in todo : TRUE
             one == evaluate_one(dict_get(marked, question_num, ""),
                                 key[question_num], acc.correct_count)
         IN  evaluate_loop(todo \ {question_num}, marked, key,
                 [correct_count |-> one.correct_count,
                  result_details |-> dict_set(acc.result_details,
                                              question_num, one.status)])

\* the mutant of percentage_of that divides without the total > 0 guard
percentage_unguarded(correct_count, total_questions) ==
    Times100(TrueDiv(correct_count, total_questions))

\* (correct_count / total_questions * 100) if total_questions > 0 else 0
percentage_of(correct_count, total_questions) ==
    IF total_questions > 0
    THEN Times100(TrueDiv(correct_count, total_questions))
    ELSE [exc |-> "none", num |-> 0, den |-> 1]

\* the mutant of round_percentage that cuts the digits off
round_percentage_truncating(percentage) ==
    (percentage.num * 100) \div percentage.den

\* round(percentage, 2), in hundredths
round_percentage(percentage) == Round2(percentage)

\* the mutant of complete_marked that copies the marked answers as they are
complete_marked_all(marked, key) ==
    [q \in (DOMAIN key) \cup (DOMAIN marked) |-> dict_get(marked, q, "")]

\* "Fill in missing marked answers with empty strings"
complete_marked(marked, key) ==
    [question_num \in DOMAIN key |-> dict_get(marked, question_num, "")]

\* _evaluate_answers(marked_answers, answer_key): the exception it raises,
\* or "none" and the OMRResult it returns
evaluate_answers(marked, key) ==
    LET total_questions == Cardinality(DOMAIN key)
        loop == evaluate_loop(DOMAIN key, marked, key,
                    [correct_count |-> 0, result_details |-> EmptyDict])
        percentage == percentage_of(loop.correct_count, total_questions)
    IN  IF percentage.exc # "none"
        THEN [exc |-> percentage.exc, value |-> NoResult]
        ELSE [exc |-> "none",
              value |->
                [score |-> loop.correct_count,
                 total |-> total_questions,
                 percentage |-> round_percentage(percentage),
                 marked_answers |-> complete_marked(marked, key),
                 correct_answers |-> key,
                 result |-> loop.result_details,
                 processing_info |->
                    [total_bubbles_detected |-> Cardinality(DOMAIN marked),
                     detection_threshold |->
                        <<self.bubble_threshold.num, self.bubble_threshold.den>>,
                     image_processing |-> "adaptive_threshold"]]]

\* process_omr_sheet, "result = self._evaluate_answers(...)": and return it
Evaluate ==
    /\ pc = "evaluate"
    /\ LET r == evaluate_answers(marked_answers, answer_key)
       IN  IF r.exc = "none"
           THEN /\ result' = r.value
                /\ pc' = "done"
                /\ raised' = raised
           ELSE /\ result' = result
                /\ pc' = "raised"
                /\ raised' = r.exc
    /\ UNCHANGED <<self, sheet, answer_key, image, processed_image, bubbles,
                   bubble_rows, marked_answers,
                   callers>>

----------------------------------------------------------------------------
(* What the callers' variables hold while a specification does not use     *)
(* them.                                                                   *)

IdleCall == [pc |-> "idle"]
IdleHttp == [pc |-> "idle"]
IdleBatch == [pc |-> "idle"]

CallersIdle ==
    /\ history = <<>>
    /\ other = IdleCall
    /\ http = IdleHttp
    /\ batch = IdleBatch

----------------------------------------------------------------------------
(* Inputs.                                                                 *)

\* the letters of the answer keys and marks tried
KeyLetters == {"A", "B"}

\* every dict from some of the questions "1" .. str(n) to a value of vals
DictsOver(n, vals) ==
    UNION {[d -> vals] : d \in SUBSET {str(i) : i \in 1..n}}

\* the end-to-end scenario of the specification's testable properties
ScenarioKey == ("1" :> "A") @@ ("2" :> "B") @@ ("3" :> "C")
ScenarioMarked == ("1" :> "A") @@ ("2" :> "C") @@ ("3" :> "")

\* the answer keys tried: every key over the questions "1" .. str(MaxKey),
\* and the scenario's
AnswerKeys == DictsOver(MaxKey, KeyLetters) \cup {ScenarioKey}

\* the marked-answers dicts tried: they may hold the empty marker, and
\* a question beyond the key
MarkedDicts == DictsOver(MaxKey + 1, KeyLetters \cup {""}) \cup {ScenarioMarked}

\* the sheet of a run that starts behind the load
NoSheet == [decodable |-> FALSE, raster |-> NoImage]

----------------------------------------------------------------------------
(* The evaluator alone, on every marked-answers dict and answer key.       *)

InitEval ==
    /\ self = init_self
    /\ pc = "evaluate"
    /\ sheet = NoSheet
    /\ answer_key \in AnswerKeys
    /\ image = NoImage
    /\ processed_image = NoBinary
    /\ bubbles = <<>>
    /\ marked_answers \in MarkedDicts
    /\ result = NoResult
    /\ raised = "none"
    /\ bubble_rows = <<>>
    /\ CallersIdle

NextEval == Evaluate

SpecEval == InitEval /\ [][NextEval]_vars

----------------------------------------------------------------------------
(* Sheets.  A sheet is laid out from row descriptions: the white-pixel     *)
(* count of each bubble of the row, left to right, and how far each bubble *)
(* sits below the row's line.  Bubbles are 8 x 10 boxes of contour area 50 *)
(* (accepted by the detector), 30 apart, on lines 50 apart.                *)

\* white pixels of an 80-pixel box: 0.50 (blank), 0.65 (the threshold
\* itself), 0.75 and 0.90
FillLevels == <<40, 52, 60, 72>>
Blank == FillLevels[1]
OptionsPerRow == 1..questions_per_row

contour_at(r, c, dy) ==
    [x |-> 20 + 30 * (c - 1), y |-> 50 * (r - 1) + dy,
     w |-> 8, h |-> 10, area |-> 50]

box_of(contour) == <<contour.x, contour.y, contour.w, contour.h>>

row_desc(fills, dy) == [fills |-> fills, dy |-> dy]

level_row(n) == [c \in 1..n |-> 0]

\* a row with a bubble too few, one too many (each with a filled bubble),
\* a blank row of five, and a row of five with C filled
ShortRow == row_desc(<<40, 72, 40, 40>>, level_row(4))
LongRow == row_desc(<<40, 40, 40, 72, 40, 40>>, level_row(6))
BlankRow == row_desc(<<40, 40, 40, 40, 40>>, level_row(5))
MarkedCRow == row_desc(<<40, 40, 72, 40, 40>>, level_row(5))
SimpleRows == {ShortRow, LongRow, BlankRow, MarkedCRow}

\* rows of five whose fills vary freely, at most MaxMarked of them off
\* blank; the left-most bubble sits on the line or 2 below it, so that the
\* detector's (y, x) order is not always the left-to-right order
VariedRows ==
    {row_desc(f, <<dy, 0, 0, 0, 0>>) :
        f \in {g \in [OptionsPerRow -> {FillLevels[i] : i \in 1..Len(FillLevels)}] :
                 Cardinality({c \in OptionsPerRow : g[c] # Blank}) <= MaxMarked},
        dy \in {0, 2}}

\* sequences over S of length 0 .. n
RECURSIVE SeqsUpTo(_, _)
SeqsUpTo(S, n) ==
    IF n = 0 THEN {<<>>}
    ELSE LET shorter == SeqsUpTo(S, n - 1)
         IN  shorter \cup {Append(q, e) : q \in {t \in shorter : Len(t) = n - 1},
                                          e \in S}

\* the contours of rows r .. Len(descs), row by row
RECURSIVE contours_from(_, _)
contours_from(descs, r) ==
    IF r > Len(descs) THEN <<>>
    ELSE [c \in 1..Len(descs[r].fills) |-> contour_at(r, c, descs[r].dy[c])]
         \o contours_from(descs, r + 1)

Reverse(q) == [i \in 1..Len(q) |-> q[Len(q) + 1 - i]]

\* the binary map of a sheet: the rows' contours and the other contours
\* (with their white-pixel counts) in the order findContours gives them
binary_of(descs, others, bottom_up) ==
    LET cells == {<<r, c>> : r \in 1..Len(descs), c \in 1..10}
        inrow == {rc \in cells : rc[2] <= Len(descs[rc[1]].fills)}
        cell_contour(rc) == contour_at(rc[1], rc[2], descs[rc[1]].dy[rc[2]])
        boxes == {box_of(cell_contour(rc)) : rc \in inrow}
                 \cup {box_of(o.contour) : o \in others}
        other_seq == [i \in 1..Cardinality(others) |->
                        (CHOOSE o \in others :
                            Cardinality({p \in others :
                                p.contour.y < o.contour.y}) = i - 1).contour]
        top_down == contours_from(descs, 1) \o other_seq
    IN  [contours |-> IF bottom_up THEN Reverse(top_down) ELSE top_down,
         white |-> [b \in boxes |->
                     IF \E rc \in inrow : box_of(cell_contour(rc)) = b
                     THEN LET rc == CHOOSE rc \in inrow :
                                       box_of(cell_contour(rc)) = b
                          IN  descs[rc[1]].fills[rc[2]]
                     ELSE (CHOOSE o \in others : box_of(o.contour) = b).white]]

\* the answer key "1": A, "2": B, "3": C, ... of n questions
pattern_key(n) ==
    [q \in {str(i) : i \in 1..n} |->
        Alphabet[(((CHOOSE i \in 1..n : str(i) = q) - 1) % questions_per_row) + 1]]

\* the answer keys tried with sheets: of 0 .. MaxKey questions
PatternKeys == {pattern_key(n) : n \in 0..MaxKey}

----------------------------------------------------------------------------
(* The answer extractor and the evaluator, on the bubbles the detector     *)
(* returns for sheets of up to MaxPrefix simple rows and a last row.       *)

AnalyzeSheets ==
    {<<>>} \cup
    {Append(prefix, last) : prefix \in SeqsUpTo(SimpleRows, MaxPrefix),
                            last \in VariedRows \cup {ShortRow, LongRow}}

InitAnalyze ==
    /\ self = init_self
    /\ pc = "analyze"
    /\ \E descs \in AnalyzeSheets :
          /\ processed_image = binary_of(descs, {}, FALSE)
          /\ image = [binary |-> processed_image]
          /\ sheet = [decodable |-> TRUE, raster |-> image]
          /\ bubbles = detect_bubbles(init_self, processed_image)
    /\ answer_key \in PatternKeys
    /\ marked_answers = EmptyDict
    /\ result = NoResult
    /\ raised = "none"
    /\ bubble_rows = <<>>
    /\ CallersIdle

NextAnalyze == Analyze \/ Evaluate

SpecAnalyze == InitAnalyze /\ [][NextAnalyze]_vars

----------------------------------------------------------------------------
(* process_omr_sheet from the load on, for files that cannot be decoded    *)
(* and for sheets of up to MaxPrefix + 1 simple rows with other contours   *)
(* among them, in either order of findContours.                            *)

\* other contours of a binary map: one with the area at min_contour_area,
\* one with the area at max_contour_area, one that is too narrow (all
\* three rejected), and a stray 7 x 10 contour of area 21 that is accepted
OtherContours ==
    {[contour |-> [x |-> 20, y |-> 400, w |-> 8, h |-> 10, area |-> 20],
      white |-> 72],
     [contour |-> [x |-> 60, y |-> 430, w |-> 24, h |-> 30, area |-> 400],
      white |-> 700],
     [contour |-> [x |-> 100, y |-> 460, w |-> 5, h |-> 10, area |-> 30],
      white |-> 45],
     [contour |-> [x |-> 200, y |-> 500, w |-> 7, h |-> 10, area |-> 21],
      white |-> 60]}

PipeSheets ==
    {[decodable |-> FALSE, raster |-> NoImage]} \cup
    {[decodable |-> TRUE, raster |-> [binary |-> binary_of(descs, others, up)]] :
        descs \in SeqsUpTo(SimpleRows, MaxPrefix + 1),
        others \in SUBSET OtherContours,
        up \in BOOLEAN}

InitPipe ==
    /\ self = init_self
    /\ pc = "load"
    /\ sheet \in PipeSheets
    /\ answer_key \in PatternKeys
    /\ image = NoImage
    /\ processed_image = NoBinary
    /\ bubbles = <<>>
    /\ marked_answers = EmptyDict
    /\ result = NoResult
    /\ raised = "none"
    /\ bubble_rows = <<>>
    /\ CallersIdle

NextPipe == Load \/ Preprocess \/ Detect \/ Analyze \/ Evaluate

Spec == InitPipe /\ [][NextPipe]_vars

----------------------------------------------------------------------------
(* One processor called again and again: up to MaxCalls calls of           *)
(* process_omr_sheet, one after the other, on the same instance.           *)

MaxCalls == 3

\* an undecodable file, a blank row, a row with C marked, and that row
\* above a row with a bubble too few
RepeatSheets ==
    {[decodable |-> FALSE, raster |-> NoImage]} \cup
    {[decodable |-> TRUE, raster |-> [binary |-> binary_of(descs, {}, FALSE)]] :
        descs \in {<<BlankRow>>, <<MarkedCRow>>, <<MarkedCRow, ShortRow>>}}

\* a key that the marked C answers rightly and one that it does not
RepeatKeys == {[q \in {"1"} |-> "C"], pattern_key(MaxKey)}

\* what a finished call was given and what came of it
finished_call(sh, key, exc, res) ==
    [sheet |-> sh, answer_key |-> key, raised |-> exc, result |-> res]

\* the call has returned or raised, and the caller calls the same processor
\* with another image path and answer key
CallAgain ==
    /\ pc \in {"done", "raised"}
    /\ Len(history) + 1 < MaxCalls
    /\ history' = Append(history,
                         finished_call(sheet, answer_key, raised, result))
    /\ pc' = "load"
    /\ sheet' \in RepeatSheets
    /\ answer_key' \in RepeatKeys
    /\ image' = NoImage
    /\ processed_image' = NoBinary
    /\ bubbles' = <<>>
    /\ bubble_rows' = <<>>
    /\ marked_answers' = EmptyDict
    /\ result' = NoResult
    /\ raised' = "none"
    /\ UNCHANGED <<self, other, http, batch>>

InitRepeat ==
    /\ self = init_self
    /\ pc = "load"
    /\ sheet \in RepeatSheets
    /\ answer_key \in RepeatKeys
    /\ image = NoImage
    /\ processed_image = NoBinary
    /\ bubbles = <<>>
    /\ bubble_rows = <<>>
    /\ marked_answers = EmptyDict
    /\ result = NoResult
    /\ raised = "none"
    /\ CallersIdle

NextRepeat ==
    Load \/ Preprocess \/ Detect \/ Analyze \/ Evaluate \/ CallAgain

SpecRepeat == InitRepeat /\ [][NextRepeat]_vars

----------------------------------------------------------------------------
(* One processor shared by two calls of process_omr_sheet whose stages     *)
(* interleave: the first call in the variables of the pipeline, the second *)
(* in the record other.                                                    *)

\* the locals of a call that is about to start
call_start(sh, key) ==
    [pc |-> "load", sheet |-> sh, answer_key |-> key,
     image |-> NoImage, processed_image |-> NoBinary, bubbles |-> <<>>,
     bubble_rows |-> <<>>, marked_answers |-> EmptyDict,
     result |-> NoResult, raised |-> "none"]

\* "except Exception as e: ... raise"
call_raises(c, exc) == [c EXCEPT !.pc = "raised", !.raised = exc]

\* the next stage of process_omr_sheet on the locals c
call_step(c) ==
    CASE c.pc = "load" ->
            IF c.sheet.decodable
            THEN [c EXCEPT !.image = c.sheet.raster, !.pc = "preprocess"]
            ELSE call_raises(c, "ValueError")
      [] c.pc = "preprocess" ->
            [c EXCEPT !.processed_image = preprocess_image(c.image),
                      !.pc = "detect"]
      [] c.pc = "detect" ->
            [c EXCEPT !.bubbles = detect_bubbles(self, c.processed_image),
                      !.pc = "analyze"]
      [] c.pc = "analyze" ->
            LET r == analyze_bubbles(c.processed_image, c.bubbles)
            IN  IF r.exc = "none"
                THEN [c EXCEPT !.marked_answers = r.value,
                               !.bubble_rows = r.rows,
                               !.pc = "evaluate"]
                ELSE call_raises(c, r.exc)
      [] c.pc = "evaluate" ->
            LET r == evaluate_answers(c.marked_answers, c.answer_key)
            IN  IF r.exc = "none"
                THEN [c EXCEPT !.result = r.value, !.pc = "done"]
                ELSE call_raises(c, r.exc)

CallRunning(c) ==
    c.pc \in {"load", "preprocess", "detect", "analyze", "evaluate"}

\* the mutant of OtherStep that tunes the processor: a call that finds no
\* marked answer lowers self.bubble_threshold to 0.4
OtherStepAdaptive ==
    /\ CallRunning(other)
    /\ other' = call_step(other)
    /\ self' = IF other.pc = "analyze" /\ other'.marked_answers = EmptyDict
               THEN [self EXCEPT !.bubble_threshold = [num |-> 2, den |-> 5]]
               ELSE self
    /\ UNCHANGED <<locals, history, http, batch>>

\* a stage of the second call
OtherStep ==
    /\ CallRunning(other)
    /\ other' = call_step(other)
    /\ UNCHANGED <<self, locals, history, http, batch>>

InitShared ==
    /\ self = init_self
    /\ pc = "load"
    /\ sheet \in RepeatSheets
    /\ answer_key \in RepeatKeys
    /\ image = NoImage
    /\ processed_image = NoBinary
    /\ bubbles = <<>>
    /\ bubble_rows = <<>>
    /\ marked_answers = EmptyDict
    /\ result = NoResult
    /\ raised = "none"
    /\ history = <<>>
    /\ \E sh \in RepeatSheets, key \in RepeatKeys : other = call_start(sh, key)
    /\ http = IdleHttp
    /\ batch = IdleBatch

NextShared ==
    Load \/ Preprocess \/ Detect \/ Analyze \/ Evaluate \/ OtherStep

SpecShared == InitShared /\ [][NextShared]_vars

----------------------------------------------------------------------------
(* The row grouper on up to MaxBubbles bubbles in any order: called on its *)
(* own with the list as it is, and inside the pipeline after the detector  *)
(* has found the same contours in that order.                              *)

MaxBubbles == 3

\* the vertical positions tried: a line, 29 and 30 below it, and 58 below
GroupYs == {0, 29, 30, 58}
GroupXs == {20, 50}

GroupContours ==
    {[x |-> x, y |-> y, w |-> 8, h |-> 10, area |-> 50] :
        x \in GroupXs, y \in GroupYs}

\* the lists of distinct members of S, of length 0 .. n
DistinctSeqs(S, n) ==
    {q \in SeqsUpTo(S, n) : \A i, j \in 1..Len(q) : q[i] = q[j] => i = j}

\* [bubble_of(c) for c in contours]
RECURSIVE bubbles_of(_)
bubbles_of(contours) ==
    IF contours = <<>> THEN <<>>
    ELSE <<bubble_of(Head(contours))>> \o bubbles_of(Tail(contours))

InitGroup ==
    /\ self = init_self
    /\ \E found \in DistinctSeqs(GroupContours, MaxBubbles) :
          /\ processed_image =
                [contours |-> found,
                 white |-> [b \in {box_of(c) : c \in GroupContours} |-> Blank]]
          /\ \/ pc = "detect" /\ bubbles = <<>>
             \/ pc = "group" /\ bubbles = bubbles_of(found)
    /\ image = [binary |-> processed_image]
    /\ sheet = [decodable |-> TRUE, raster |-> image]
    /\ answer_key = pattern_key(1)
    /\ bubble_rows = <<>>
    /\ marked_answers = EmptyDict
    /\ result = NoResult
    /\ raised = "none"
    /\ CallersIdle

NextGroup == Group \/ Detect \/ Analyze

SpecGroup == InitGroup /\ [][NextGroup]_vars

----------------------------------------------------------------------------
(* The bubble detector on up to MaxContours contours whose areas and       *)
(* bounding boxes lie on and next to the limits of its two filters.        *)

MaxContours == 2

\* areas on the limits of the band, just inside and just outside it
DetectAreas ==
    {min_contour_area - 1, min_contour_area, min_contour_area + 1,
     max_contour_area - 1, max_contour_area, max_contour_area + 1}

\* bounding boxes (w, h) of ratio 0.65, 0.7, 1, 1.3 and 1.35
DetectBoxes == {<<13, 20>>, <<7, 10>>, <<10, 10>>, <<13, 10>>, <<27, 20>>}

\* each contour at a place of its own
DetectContours ==
    {[x |-> 10 * box[1] + box[2], y |-> area, w |-> box[1], h |-> box[2],
      area |-> area] : area \in DetectAreas, box \in DetectBoxes}

InitDetect ==
    /\ self = init_self
    /\ pc = "detect"
    /\ \E found \in DistinctSeqs(DetectContours, MaxContours) :
          processed_image =
              [contours |-> found,
               white |-> [b \in {box_of(c) : c \in DetectContours} |-> Blank]]
    /\ image = [binary |-> processed_image]
    /\ sheet = [decodable |-> TRUE, raster |-> image]
    /\ answer_key = pattern_key(1)
    /\ bubbles = <<>>
    /\ bubble_rows = <<>>
    /\ marked_answers = EmptyDict
    /\ result = NoResult
    /\ raised = "none"
    /\ CallersIdle

NextDetect == Detect

SpecDetect == InitDetect /\ [][NextDetect]_vars

----------------------------------------------------------------------------
(* Claims about the evaluator, checked under SpecEval.                     *)

Done == pc = "done"

\* C1: _evaluate_answers gives each question q of the answer key the status
\* not_attempted when the marked answers have no entry for q or the empty
\* string, correct when the marked letter is non-empty and equals the
\* key's letter, and incorrect otherwise.
C1_StatusPerQuestion ==
    Done =>
        \A q \in DOMAIN answer_key :
            /\ q \in DOMAIN result.result
            /\ result.result[q] =
                 IF q \notin DOMAIN marked_answers \/ marked_answers[q] = ""
                 THEN "not_attempted"
                 ELSE IF marked_answers[q] = answer_key[q]
                 THEN "correct"
                 ELSE "incorrect"

\* the scenario K = {1:A, 2:B, 3:C}, M = {1:A, 2:C, 3:''} has been evaluated
\* to correct, incorrect, not_attempted
C1_Witness ==
    /\ Done
    /\ answer_key = ScenarioKey
    /\ marked_answers = ScenarioMarked
    /\ result.result = ("1" :> "correct") @@ ("2" :> "incorrect")
                       @@ ("3" :> "not_attempted")
    /\ result.score = 1 /\ result.total = 3 /\ result.percentage = 3333

\* C2: the marked_answers map and the status map of the result each have
\* exactly the questions of the answer key as their keys, also when the
\* marked answers hold questions outside the key; a question the marked
\* answers lack gets '' and not_attempted.
C2_ResultKeysAreKeyQuestions ==
    Done =>
        /\ DOMAIN result.marked_answers = DOMAIN answer_key
        /\ DOMAIN result.result = DOMAIN answer_key
        /\ \A q \in DOMAIN answer_key :
              /\ q \in DOMAIN marked_answers =>
                    result.marked_answers[q] = marked_answers[q]
              /\ q \notin DOMAIN marked_answers =>
                    /\ result.marked_answers[q] = ""
                    /\ result.result[q] = "not_attempted"

\* evaluated with a marked question outside the key and a key question
\* that was not marked
C2_Witness ==
    /\ Done
    /\ (DOMAIN marked_answers) \ (DOMAIN answer_key) # {}
    /\ (DOMAIN answer_key) \ (DOMAIN marked_answers) # {}
    /\ (DOMAIN answer_key) \cap (DOMAIN marked_answers) # {}

\* C3: score is the number of questions whose status is correct, total is
\* the number of entries of the answer key, and 0 <= score <= total.
C3_ScoreCountsCorrect ==
    Done =>
        /\ result.score =
             Cardinality({q \in DOMAIN result.result :
                             result.result[q] = "correct"})
        /\ result.total = Cardinality(DOMAIN answer_key)
        /\ 0 <= result.score
        /\ result.score <= result.total

\* evaluated with a correct, an incorrect and a not attempted question
C3_Witness ==
    /\ Done
    /\ \E q1, q2, q3 \in DOMAIN result.result :
          /\ result.result[q1] = "correct"
          /\ result.result[q2] = "incorrect"
          /\ result.result[q3] = "not_attempted"
    /\ result.score = 1

\* C4: with total > 0 the percentage is score/total*100 rounded to two
\* decimal places (no hundredth is nearer to it) and lies in 0 .. 100.
C4_PercentageRounded ==
    (Done /\ result.total > 0) =>
        /\ 2 * Abs(result.percentage * result.total - result.score * 10000)
              <= result.total
        /\ 0 <= result.percentage
        /\ result.percentage <= 10000

\* two of three correct: 66.67, rounded up
C4_Witness ==
    /\ Done
    /\ result.score = 2 /\ result.total = 3
    /\ result.percentage = 6667

\* C5: with an empty answer key _evaluate_answers raises nothing and returns
\* score 0, total 0, percentage 0 and empty marked_answers and result maps,
\* whatever the marked answers are.
C5_EmptyKeyNoDivisionByZero ==
    (DOMAIN answer_key = {}) =>
        /\ pc # "raised"
        /\ raised = "none"
        /\ Done =>
              /\ result.score = 0
              /\ result.total = 0
              /\ result.percentage = 0
              /\ result.marked_answers = EmptyDict
              /\ result.result = EmptyDict

\* an empty key has been evaluated against marked answers that are not empty
C5_Witness ==
    /\ Done
    /\ DOMAIN answer_key = {}
    /\ DOMAIN marked_answers # {}
    /\ result.total = 0

----------------------------------------------------------------------------
(* Claims about the answer extractor, checked under SpecAnalyze.  A row is *)
(* taken as the set of bubbles the Row Grouper put together; positions     *)
(* in it and fill ratios are read off the bubbles' boxes and the binary    *)
(* map, not off the lists the extractor builds.                            *)

Analysed == pc \in {"evaluate", "done"}

\* the rows of the detected bubbles, each as a set: a function from the
\* row's number to its bubbles
DetectedRowSets ==
    LET rows == group_bubbles_by_rows(bubbles).rows
    IN  [k \in 1..Len(rows) |-> {rows[k][i] : i \in 1..Len(rows[k])}]

ValidRow(R) == Cardinality(R) = 5

WhiteOf(b) == processed_image.white[<<b.x, b.y, b.w, b.h>>]

\* fill ratio > 0.65, = 0.65
AboveThreshold(b) == 100 * WhiteOf(b) > 65 * (b.w * b.h)
AtThreshold(b) == 100 * WhiteOf(b) = 65 * (b.w * b.h)

\* fill ratio of a <= fill ratio of b
FillLeq(a, b) == WhiteOf(a) * (b.w * b.h) <= WhiteOf(b) * (a.w * a.h)

\* the bubbles of row R with the row's maximum fill ratio
TopOfRow(R) == {b \in R : \A o \in R : FillLeq(o, b)}

\* left-to-right position (0-based) of bubble b in row R, and its letter
PositionInRow(b, R) == Cardinality({o \in R : o.x < b.x})
OptionLetters == <<"A", "B", "C", "D", "E">>
LetterInRow(b, R) == OptionLetters[PositionInRow(b, R) + 1]

\* the left-most bubble of the row sits below a bubble to its right
LeftMostOffLine(R) ==
    \E b \in R : PositionInRow(b, R) = 0 /\ \E o \in R : b.y > o.y

\* C6: in a valid row in which the bubble at left-to-right position i is
\* the only one whose fill ratio exceeds the threshold, the row's question
\* gets the i-th option letter, for every position and every row.
C6_OnlyFilledBubbleIsTheAnswer ==
    Analysed =>
        \A rows \in {DetectedRowSets} : \A k \in DOMAIN rows :
            ValidRow(rows[k]) =>
                \A b \in rows[k] :
                    (/\ AboveThreshold(b)
                     /\ \A o \in rows[k] \ {b} : ~AboveThreshold(o))
                    => /\ str(k) \in DOMAIN marked_answers
                       /\ marked_answers[str(k)] = LetterInRow(b, rows[k])

\* the second row of a sheet has D as its only bubble above the threshold
\* and another bubble at the threshold, its left-most bubble is off the
\* line, and the row was recorded as D
C6_Witness ==
    /\ Analysed
    /\ \E rows \in {DetectedRowSets} :
          /\ DOMAIN rows = 1..2
          /\ ValidRow(rows[2])
          /\ \E b \in rows[2] :
                /\ AboveThreshold(b)
                /\ \A o \in rows[2] \ {b} : ~AboveThreshold(o)
                /\ \E o \in rows[2] : AtThreshold(o)
                /\ PositionInRow(b, rows[2]) = 3
          /\ LeftMostOffLine(rows[2])
    /\ "2" \in DOMAIN marked_answers
    /\ marked_answers["2"] = "D"

\* C7: a valid row gets an answer letter if and only if its maximum fill
\* ratio is strictly greater than the threshold; a row whose fill ratios
\* are all below it, or whose maximum equals it, gets no entry and the
\* evaluator reports not_attempted for its question.
C7_AnswerIffAboveThreshold ==
    Analysed =>
        \A rows \in {DetectedRowSets} : \A k \in DOMAIN rows :
            ValidRow(rows[k]) =>
                /\ str(k) \in DOMAIN marked_answers
                      <=> \E b \in rows[k] : AboveThreshold(b)
                /\ (/\ Done
                    /\ \A b \in rows[k] : ~AboveThreshold(b)
                    /\ str(k) \in DOMAIN answer_key)
                   => /\ result.result[str(k)] = "not_attempted"
                      /\ result.marked_answers[str(k)] = ""

\* a row whose maximum fill ratio is exactly the threshold has been
\* evaluated as not attempted
C7_Witness ==
    /\ Done
    /\ \E rows \in {DetectedRowSets} : \E k \in DOMAIN rows :
          /\ ValidRow(rows[k])
          /\ \E b \in rows[k] : AtThreshold(b)
          /\ \A b \in rows[k] : ~AboveThreshold(b)
          /\ str(k) \in DOMAIN answer_key
          /\ str(k) \notin DOMAIN marked_answers
          /\ result.result[str(k)] = "not_attempted"

\* C8: when two or more bubbles of a valid row share the row's maximum fill
\* ratio and it is above the threshold, the answer is the letter of the
\* left-most of them, and the question's status is correct or incorrect.
C8_TieGoesToLeftMost ==
    Analysed =>
        \A rows \in {DetectedRowSets} : \A k \in DOMAIN rows :
            \A top \in {TopOfRow(rows[k])} :
                (/\ ValidRow(rows[k])
                 /\ Cardinality(top) >= 2
                 /\ \A b \in top : AboveThreshold(b))
                => /\ \E b \in top :
                         /\ \A o \in top : b.x <= o.x
                         /\ str(k) \in DOMAIN marked_answers
                         /\ marked_answers[str(k)] = LetterInRow(b, rows[k])
                   /\ (Done /\ str(k) \in DOMAIN answer_key)
                         => result.result[str(k)] \in {"correct", "incorrect"}

\* a row with its first and fourth bubble both at fill ratio 0.90, the
\* first one off the line, has been recorded as A and evaluated
C8_Witness ==
    /\ Done
    /\ \E rows \in {DetectedRowSets} : \E k \in DOMAIN rows :
          \E top \in {TopOfRow(rows[k])} :
              /\ ValidRow(rows[k])
              /\ Cardinality(top) = 2
              /\ \A b \in top : 100 * WhiteOf(b) = 90 * (b.w * b.h)
              /\ {PositionInRow(b, rows[k]) : b \in top} = {0, 3}
              /\ LeftMostOffLine(rows[k])
              /\ str(k) \in DOMAIN answer_key
              /\ marked_answers[str(k)] = "A"
              /\ result.result[str(k)] \in {"correct", "incorrect"}

\* C9: a row whose bubble count differs from questions_per_row raises
\* nothing; its question gets no entry in the extracted answers and
\* not_attempted in the result, and every other row of the sheet is still
\* analysed and scored.
C9_DegenerateRowSkipped ==
    /\ pc # "raised"
    /\ Analysed =>
          \A rows \in {DetectedRowSets} : \A k \in DOMAIN rows :
              IF ~ValidRow(rows[k])
              THEN /\ str(k) \notin DOMAIN marked_answers
                   /\ (Done /\ str(k) \in DOMAIN answer_key)
                         => result.result[str(k)] = "not_attempted"
              ELSE (\E b \in rows[k] : AboveThreshold(b))
                   => /\ str(k) \in DOMAIN marked_answers
                      /\ \E b \in TopOfRow(rows[k]) :
                            marked_answers[str(k)] = LetterInRow(b, rows[k])
                      /\ (Done /\ str(k) \in DOMAIN answer_key)
                            => result.result[str(k)] =
                                 IF marked_answers[str(k)] = answer_key[str(k)]
                                 THEN "correct" ELSE "incorrect"

\* a sheet whose first row has six bubbles, one of them filled, and whose
\* second row is valid with B filled: question 1 is not attempted and
\* question 2 is scored correct
C9_Witness ==
    /\ Done
    /\ \E rows \in {DetectedRowSets} :
          /\ DOMAIN rows = 1..2
          /\ Cardinality(rows[1]) = 6
          /\ \E b \in rows[1] : AboveThreshold(b)
          /\ ValidRow(rows[2])
    /\ {"1", "2"} \subseteq DOMAIN answer_key
    /\ result.result["1"] = "not_attempted"
    /\ result.marked_answers["1"] = ""
    /\ result.marked_answers["2"] = "B"
    /\ result.result["2"] = "correct"

\* a sheet whose last row has four bubbles, one of them filled, behind a
\* valid row with C filled: question 1 is scored, question 2 not attempted
C9_WitnessShort ==
    /\ Done
    /\ \E rows \in {DetectedRowSets} :
          /\ DOMAIN rows = 1..2
          /\ ValidRow(rows[1])
          /\ Cardinality(rows[2]) = 4
          /\ \E b \in rows[2] : AboveThreshold(b)
    /\ {"1", "2"} \subseteq DOMAIN answer_key
    /\ result.marked_answers["1"] = "C"
    /\ result.result["1"] = "incorrect"
    /\ result.result["2"] = "not_attempted"

----------------------------------------------------------------------------
(* Claims about process_omr_sheet, checked under Spec.                     *)

Detected == pc \notin {"load", "preprocess", "detect"}

\* C10: when the detector finds no bubble in a decodable image,
\* process_omr_sheet raises nothing and returns a result in which every
\* question of the answer key is not_attempted with an empty marked
\* answer, and score is 0.
C10_NoBubblesAllNotAttempted ==
    (sheet.decodable /\ Detected /\ bubbles = <<>>) =>
        /\ pc # "raised"
        /\ raised = "none"
        /\ Done =>
              /\ result.score = 0
              /\ DOMAIN result.result = DOMAIN answer_key
              /\ DOMAIN result.marked_answers = DOMAIN answer_key
              /\ \A q \in DOMAIN answer_key :
                    /\ result.result[q] = "not_attempted"
                    /\ result.marked_answers[q] = ""

\* an image with contours, all of them rejected by the detector, has been
\* processed against a key of three questions
C10_Witness ==
    /\ Done
    /\ sheet.decodable
    /\ Len(processed_image.contours) >= 2
    /\ bubbles = <<>>
    /\ Cardinality(DOMAIN answer_key) = 3
    /\ \A q \in DOMAIN answer_key : result.result[q] = "not_attempted"
    /\ result.score = 0 /\ result.total = 3

\* an image without any contour has been processed
C10_WitnessNoContours ==
    /\ Done
    /\ sheet.decodable
    /\ processed_image.contours = <<>>
    /\ DOMAIN answer_key # {}
    /\ \A q \in DOMAIN answer_key : result.result[q] = "not_attempted"

\* the later stages have left nothing behind: the locals they assign hold
\* what they held before the call
NoLaterStageRan ==
    /\ image = NoImage
    /\ processed_image = NoBinary
    /\ bubbles = <<>>
    /\ bubble_rows = <<>>
    /\ marked_answers = EmptyDict
    /\ result = NoResult

C17_ReportsDetectedBubbles ==
    Done => result.processing_info.total_bubbles_detected = Len(bubbles)

----------------------------------------------------------------------------
(* More claims about the answer extractor, checked under SpecAnalyze.      *)

\* the rows from which an answer is to be extracted: valid rows with a
\* bubble above the threshold
AnsweredRows(rows) ==
    {k \in DOMAIN rows : ValidRow(rows[k]) /\ \E b \in rows[k] : AboveThreshold(b)}

\* C18: the k-th row the Row Grouper emits, degenerate rows counted too, is
\* question k: the extracted answers have exactly the keys str(k) of the
\* valid rows k with a bubble above the threshold, and the answer under
\* str(k) is a letter of row k's fullest bubbles; a degenerate row does not
\* shift the numbers of the rows behind it.
C18_RowNumberIsQuestionNumber ==
    Analysed =>
        \A rows \in {DetectedRowSets} :
            /\ DOMAIN marked_answers = {str(k) : k \in AnsweredRows(rows)}
            /\ \A k \in AnsweredRows(rows) :
                  \E b \in TopOfRow(rows[k]) :
                      marked_answers[str(k)] = LetterInRow(b, rows[k])

\* the first row is degenerate and the second row, with E filled, has been
\* recorded under "2" and nothing under "1"
C18_Witness ==
    /\ Analysed
    /\ \E rows \in {DetectedRowSets} :
          /\ DOMAIN rows = 1..2
          /\ ~ValidRow(rows[1])
          /\ AnsweredRows(rows) = {2}
    /\ DOMAIN marked_answers = {"2"}
    /\ marked_answers["2"] = "E"


----------------------------------------------------------------------------
(* The stand-in processor: OMRProcessor.process_omr_sheet of               *)
(* mock_omr_utils.py, which main.py imports.                               *)

\* "marked_answers = { "1": "A", "2": "C", ... "10": "A" }"
mock_marked_answers ==
    [q \in {str(i) : i \in 1..10} |->
        CASE q = "1" -> "A" [] q = "2" -> "C" [] q = "3" -> "C"
          [] q = "4" -> "D" [] q = "5" -> "A" [] q = "6" -> ""
          [] q = "7" -> "B" [] q = "8" -> "D" [] q = "9" -> ""
          [] q = "10" -> "A"]

\* marked_answers.get(question_num, "")
mock_marked_answer(question_num) ==
    IF question_num \in DOMAIN mock_marked_answers
    THEN mock_marked_answers[question_num] ELSE ""

\* the mutant of mock_result_detail without the "if not marked_answer" branch
mock_result_detail_no_blank(question_num, correct_answer) ==
    IF mock_marked_answer(question_num) = correct_answer
    THEN "correct" ELSE "incorrect"

\* the if / elif / else of the loop over answer_key.items()
mock_result_detail(question_num, correct_answer) ==
    IF mock_marked_answer(question_num) = "" THEN "not_attempted"
    ELSE IF mock_marked_answer(question_num) = correct_answer THEN "correct"
    ELSE "incorrect"

\* the mock's process_omr_sheet(image_path, answer_key): the exception it
\* raises, or "none" and the OMRResult it returns
mock_process_omr_sheet(key) ==
    LET total_questions == Cardinality(DOMAIN key)
        result_details ==
            [q \in DOMAIN key |-> mock_result_detail(q, key[q])]
        correct_count ==
            Cardinality({q \in DOMAIN key : result_details[q] = "correct"})
        percentage ==
            IF total_questions > 0
            THEN Times100(TrueDiv(correct_count, total_questions))
            ELSE [exc |-> "none", num |-> 0, den |-> 1]
    IN  IF percentage.exc # "none"
        THEN [exc |-> percentage.exc, value |-> NoResult]
        ELSE [exc |-> "none",
              value |->
                [score |-> correct_count,
                 total |-> total_questions,
                 percentage |-> Round2(percentage),
                 marked_answers |->
                    [q \in DOMAIN key |-> mock_marked_answer(q)],
                 correct_answers |-> key,
                 result |-> result_details,
                 processing_info |->
                    [total_bubbles_detected |->
                        Cardinality({q \in DOMAIN mock_marked_answers :
                                        mock_marked_answers[q] # ""}),
                     detection_threshold |-> <<65, 100>>,
                     image_processing |-> "mock_processing"]]]

\* a call of the mock's process_omr_sheet
MockProcess ==
    /\ pc = "mock"
    /\ LET r == mock_process_omr_sheet(answer_key)
       IN  IF r.exc = "none"
           THEN /\ result' = r.value
                /\ pc' = "mock_done"
                /\ raised' = raised
           ELSE /\ result' = result
                /\ pc' = "raised"
                /\ raised' = r.exc
    /\ UNCHANGED <<self, sheet, answer_key, image, processed_image, bubbles,
                   bubble_rows, marked_answers, callers>>

\* the answer keys given to the mock: over at most MaxMockKey of these
\* questions ("6" is blank in the mock's table, "11" is not in it)
MaxMockKey == 3
MockQuestions == {"1", "2", "6", "10", "11"}
MockLetters == {"A", "C"}

MockKeys ==
    UNION {[qs -> MockLetters] :
              qs \in {s \in SUBSET MockQuestions :
                         Cardinality(s) <= MaxMockKey}}

InitMock ==
    /\ self = init_self
    /\ pc = "mock"
    /\ answer_key \in MockKeys
    /\ sheet = NoSheet
    /\ image = NoImage
    /\ processed_image = NoBinary
    /\ bubbles = <<>>
    /\ bubble_rows = <<>>
    /\ marked_answers = EmptyDict
    /\ result = NoResult
    /\ raised = "none"
    /\ CallersIdle

NextMock == MockProcess

SpecMock == InitMock /\ [][NextMock]_vars

----------------------------------------------------------------------------
(* The /upload handler of main.py: upload_and_process_omr, with the        *)
(* directories uploads, answer_keys and results, and the module-level      *)
(* omr_processor (the stand-in processor).                                 *)

\* "5 * 1024 * 1024"
max_upload_bytes == 5 * 1024 * 1024

\* "allowed_extensions = {'.jpg', '.jpeg', '.png'}"
allowed_extensions == {".jpg", ".jpeg", ".png"}

\* a content type is its type and subtype; none was sent
NoContentType == [type |-> "", subtype |-> ""]

\* "not file.content_type or not file.content_type.startswith('image/')"
content_type_refused(content_type) ==
    content_type = NoContentType \/ content_type.type # "image"

\* Path(file.filename).suffix.lower()
suffix_lower(suffix) ==
    CASE suffix = ".PNG" -> ".png"
      [] suffix = ".JPG" -> ".jpg"
      [] OTHER -> suffix

\* the mutant of answer_key_path_exists that takes the file to be there
answer_key_path_assumed(answer_keys, exam_key) == TRUE

\* answer_key_path.exists()
answer_key_path_exists(answer_keys, exam_key) == exam_key \in DOMAIN answer_keys

\* what one request did: the exception its try block raised ("none" when
\* it returned), the status that goes with it, and what it touched
upload_outcome(exc, status, saved, removed, key_read, invoked, written, body) ==
    [exc |-> exc, status |-> status, saved |-> saved, removed |-> removed,
     key_read |-> key_read, invoked |-> invoked, written |-> written,
     body |-> body]

\* "with open(answer_key_path, 'r') as f: answer_key = json.load(f)": the
\* exception raised, or "none" and the value loaded
load_answer_key(answer_keys, exam_key) ==
    IF exam_key \notin DOMAIN answer_keys
    THEN [exc |-> "FileNotFoundError", value |-> EmptyDict]
    ELSE IF answer_keys[exam_key].json = "invalid"
    THEN [exc |-> "JSONDecodeError", value |-> EmptyDict]
    ELSE [exc |-> "none", value |-> answer_keys[exam_key]]

\* omr_processor.process_omr_sheet(str(file_path), answer_key): a loaded
\* value that is no dict has no items()
processor_call(loaded) ==
    IF loaded.json = "dict" THEN mock_process_omr_sheet(loaded.dict)
    ELSE [exc |-> "AttributeError", value |-> NoResult]

\* the mutant of http_exception whose checks come after the file is saved
http_exception_after_save(status) ==
    upload_outcome("HTTPException", status, TRUE, FALSE, FALSE, FALSE,
                   FALSE, NoResult)

\* "raise HTTPException(status_code=400, ...)"
http_exception(status) ==
    upload_outcome("HTTPException", status, FALSE, FALSE, FALSE, FALSE,
                   FALSE, NoResult)

\* a statement of the try block raised exc, which is no HTTPException
body_raised(exc, saved, removed, key_read, invoked) ==
    upload_outcome(exc, 0, saved, removed, key_read, invoked, FALSE,
                   NoResult)

\* the try block of upload_and_process_omr for one request; env says which
\* of the file operations fail
upload_try_block(request, env, answer_keys) ==
    IF content_type_refused(request.content_type) THEN http_exception(400)
    ELSE IF suffix_lower(request.suffix) \notin allowed_extensions
    THEN http_exception(400)
    ELSE IF request.size > max_upload_bytes THEN http_exception(400)
    ELSE IF env.save_fails
    THEN body_raised("OSError", FALSE, FALSE, FALSE, FALSE)
    ELSE IF ~answer_key_path_exists(answer_keys, request.exam_key)
    THEN upload_outcome("HTTPException", 404, TRUE, FALSE, FALSE, FALSE,
                        FALSE, NoResult)
    ELSE LET loaded == load_answer_key(answer_keys, request.exam_key)
         IN  IF loaded.exc # "none"
             THEN body_raised(loaded.exc, TRUE, FALSE, TRUE, FALSE)
             ELSE LET r == processor_call(loaded.value)
                      removed == ~env.remove_fails
                  IN  IF r.exc # "none"
                      THEN body_raised(r.exc, TRUE, FALSE, TRUE, TRUE)
                      ELSE IF env.result_write_fails
                      THEN body_raised("OSError", TRUE, removed, TRUE, TRUE)
                      ELSE upload_outcome("none", 200, TRUE, removed, TRUE,
                                          TRUE, TRUE, r.value)

\* the mutant of except_clauses without "except HTTPException: raise"
except_clauses_rewrapping(out) ==
    IF out.exc = "none" THEN out
    ELSE [out EXCEPT !.exc = "HTTPException", !.status = 500]

\* "except HTTPException: raise" and "except Exception as e: raise
\* HTTPException(status_code=500, ...)": the exception that leaves the
\* handler and its status
except_clauses(out) ==
    IF out.exc \in {"none", "HTTPException"} THEN out
    ELSE [out EXCEPT !.exc = "HTTPException", !.status = 500]

\* upload_and_process_omr for one request
upload_and_process_omr(request, env, answer_keys) ==
    except_clauses(upload_try_block(request, env, answer_keys))

\* what the client receives: the result, the status of an HTTPException,
\* or the 500 of global_exception_handler for any other exception
response_for(out) ==
    IF out.exc \in {"none", "HTTPException"}
    THEN [status |-> out.status, body |-> out.body, raised |-> out.exc]
    ELSE [status |-> 500, body |-> NoResult, raised |-> out.exc]

\* the requests and the failures tried
MaxRequests == 2

ContentTypes ==
    {NoContentType, [type |-> "text", subtype |-> "plain"],
     [type |-> "image", subtype |-> "png"]}
Suffixes == {".png", ".JPG", ".gif"}
Sizes == {max_upload_bytes, max_upload_bytes + 1}
ExamKeys == {"exam1", "exam2"}

Requests ==
    [content_type : ContentTypes, suffix : Suffixes, size : Sizes,
     exam_key : ExamKeys]

Environments ==
    [save_fails : BOOLEAN, remove_fails : BOOLEAN,
     result_write_fails : BOOLEAN]

\* what answer_keys/exam1.json can hold; there is no exam2.json
KeyFileContents ==
    {[json |-> "dict", dict |-> [q \in {"1", "2"} |-> "A"]],
     [json |-> "list", dict |-> EmptyDict],
     [json |-> "invalid", dict |-> EmptyDict]}

\* one request to /upload, from its arrival to its response; the files it
\* writes are named by fresh uuids, here the number of the request
Upload ==
    /\ http.pc = "serving"
    /\ http.requests < MaxRequests
    /\ \E request \in Requests, env \in Environments :
          LET id == http.requests + 1
              out == upload_and_process_omr(request, env, http.answer_keys)
          IN  http' = [http EXCEPT
                          !.requests = id,
                          !.saved = IF out.saved THEN @ \cup {id} ELSE @,
                          !.keys_read = IF out.key_read
                                        THEN @ \cup {id} ELSE @,
                          !.uploads = IF out.saved /\ ~out.removed
                                      THEN @ \cup {id} ELSE @,
                          !.results = IF out.written THEN @ \cup {id} ELSE @,
                          !.invoked = IF out.invoked THEN @ \cup {id} ELSE @,
                          !.request = request,
                          !.response = response_for(out)]
    /\ UNCHANGED <<self, locals, history, other, batch>>

NoRequest ==
    [content_type |-> NoContentType, suffix |-> "", size |-> 0,
     exam_key |-> ""]

InitUpload ==
    /\ self = init_self
    /\ pc = "idle"
    /\ sheet = NoSheet
    /\ answer_key = EmptyDict
    /\ image = NoImage
    /\ processed_image = NoBinary
    /\ bubbles = <<>>
    /\ bubble_rows = <<>>
    /\ marked_answers = EmptyDict
    /\ result = NoResult
    /\ raised = "none"
    /\ history = <<>>
    /\ other = IdleCall
    /\ batch = IdleBatch
    /\ \E content \in KeyFileContents :
          http = [pc |-> "serving",
                  answer_keys |-> [k \in {"exam1"} |-> content],
                  requests |-> 0, saved |-> {}, keys_read |-> {},
                  uploads |-> {}, results |-> {}, invoked |-> {},
                  request |-> NoRequest,
                  response |-> [status |-> 0, body |-> NoResult,
                                raised |-> "none"]]

NextUpload == Upload

SpecUpload == InitUpload /\ [][NextUpload]_vars

----------------------------------------------------------------------------
(* The batch page of batch_omr_app.py: process_batch and                   *)
(* process_all_sheets, with the session state and the temp directory.      *)

\* Python's None
None == [type |-> "NoneType"]

\* EnhancedOMRProcessor.process_student_sheet(path, answer_key): it returns
\* a dict with the student's identity and the OMRResult, or it raises;
\* which of the two, and the score, is the sheet's
process_student_sheet(sheet_outcome) ==
    IF sheet_outcome.raises
    THEN [exc |-> "ValueError", value |-> None]
    ELSE [exc |-> "none",
          value |-> [student_info |-> [name |-> "Student",
                                       roll_number |-> "1"],
                     omr_result |-> [score |-> sheet_outcome.score,
                                     total |-> 1]]]

\* "result['filename'] = uploaded_file.name"
with_filename(value, name) ==
    [filename |-> name, student_info |-> value.student_info,
     omr_result |-> value.omr_result]

\* the dict appended by "except Exception as e"
error_placeholder(name, exc) ==
    [filename |-> name, error |-> exc,
     student_info |-> [name |-> "Error", roll_number |-> "Error"],
     omr_result |-> None]

\* the body of the loop for one uploaded file: the try block up to the
\* statement that raises, then the except block; temp_id names the temp
\* file, env says which file operations fail
process_one_sheet(results, temp, name, temp_id, env) ==
    IF env.write_fails
    THEN [results |-> Append(results, error_placeholder(name, "OSError")),
          temp |-> temp, log |-> "write failed"]
    ELSE LET r == process_student_sheet(env.sheet)
         IN  IF r.exc # "none"
             THEN [results |-> Append(results,
                                      error_placeholder(name, r.exc)),
                   temp |-> temp \cup {temp_id},
                   log |-> "processing failed"]
             ELSE LET appended == Append(results,
                                         with_filename(r.value, name))
                  IN  IF env.remove_fails
                      THEN [results |->
                                Append(appended,
                                       error_placeholder(name,
                                                         "PermissionError")),
                            temp |-> temp \cup {temp_id},
                            log |-> "remove failed"]
                      ELSE [results |-> appended, temp |-> temp,
                            log |-> "processed"]

\* the batches tried: up to MaxFiles uploaded files
MaxFiles == 3
FileNames == {"a.jpg", "b.jpg"}

SheetOutcomes == [raises : BOOLEAN, score : {0, 1}]

BatchEnvironments ==
    [write_fails : BOOLEAN, sheet : SheetOutcomes, remove_fails : BOOLEAN]

\* the mutant of StartBatch whose button is shown whatever the session holds
StartBatchUnguarded ==
    /\ batch.pc = "ready"
    /\ batch' = [batch EXCEPT !.pc = "loop", !.i = 0, !.results = <<>>,
                              !.log = <<>>]
    /\ UNCHANGED <<self, locals, history, other, http>>

\* process_batch: "if has_answer_key and has_files" and the button, then
\* the first lines of process_all_sheets
StartBatch ==
    /\ batch.pc = "ready"
    /\ batch.answer_key # EmptyDict
    /\ batch.uploaded_files # <<>>
    /\ batch' = [batch EXCEPT !.pc = "loop", !.i = 0, !.results = <<>>,
                              !.log = <<>>]
    /\ UNCHANGED <<self, locals, history, other, http>>

\* one turn of "for i, uploaded_file in enumerate(uploaded_files)"
ProcessSheet ==
    /\ batch.pc = "loop"
    /\ batch.i < Len(batch.uploaded_files)
    /\ \E env \in BatchEnvironments :
          LET one == process_one_sheet(batch.results, batch.temp,
                                       batch.uploaded_files[batch.i + 1],
                                       batch.i + 1, env)
          IN  batch' = [batch EXCEPT !.i = @ + 1,
                                     !.results = one.results,
                                     !.temp = one.temp,
                                     !.log = Append(@, one.log)]
    /\ UNCHANGED <<self, locals, history, other, http>>

\* "st.session_state.processing_results = results"
StoreResults ==
    /\ batch.pc = "loop"
    /\ batch.i = Len(batch.uploaded_files)
    /\ batch' = [batch EXCEPT !.pc = "stored",
                              !.processing_results = batch.results]
    /\ UNCHANGED <<self, locals, history, other, http>>

\* no report has been asked for
NoReport == [kind |-> "none"]

\* "if omr_result:" for what the results hold: None is false, a result
\* object is true
truthy(omr_result) == omr_result # None

\* the entries that "if 'omr_result' in r" lets through
with_omr_key(results) ==
    {i \in 1..Len(results) : "omr_result" \in DOMAIN results[i]}

\* the entries that "omr_result = result.get('omr_result')" and
\* "if omr_result:" let through
with_omr_result(results) ==
    {i \in 1..Len(results) :
        /\ "omr_result" \in DOMAIN results[i]
        /\ truthy(results[i].omr_result)}

\* "[r['omr_result'].score for r in results if 'omr_result' in r]"
RECURSIVE scores_of(_)
scores_of(results) ==
    IF results = <<>> THEN <<>>
    ELSE IF "omr_result" \in DOMAIN Head(results)
    THEN <<Head(results).omr_result.score>> \o scores_of(Tail(results))
    ELSE scores_of(Tail(results))

\* _create_summary_section: the attribute score of None is an
\* AttributeError; the table is there only "if scores:"
create_summary_section(results) ==
    IF \E i \in with_omr_key(results) : results[i].omr_result = None
    THEN [exc |-> "AttributeError", from |-> {}, scores |-> <<>>,
          total_students |-> 0]
    ELSE [exc |-> "none", from |-> with_omr_key(results),
          scores |-> scores_of(results),
          total_students |-> IF with_omr_key(results) = {} THEN 0
                             ELSE Len(results)]

\* _create_detailed_results_table, _create_individual_reports and the rows
\* of generate_summary_csv: one row or report for each entry with a result,
\* under its place in the list
rows_of(results) ==
    [i \in with_omr_result(results) |->
        [name |-> results[i].student_info.name,
         roll |-> results[i].student_info.roll_number,
         score |-> results[i].omr_result.score,
         total |-> results[i].omr_result.total]]

\* generate_batch_report: the sections in the order they are made; an
\* exception of a section is logged and raised again
generate_batch_report(results) ==
    LET summary == create_summary_section(results)
    IN  IF summary.exc # "none"
        THEN [kind |-> "pdf", exc |-> summary.exc, summary |-> {},
              rows |-> {}]
        ELSE [kind |-> "pdf", exc |-> "none", summary |-> summary.from,
              rows |-> DOMAIN rows_of(results)]

\* generate_summary_csv
generate_summary_csv(results) ==
    [kind |-> "csv", exc |-> "none", summary |-> {},
     rows |-> DOMAIN rows_of(results)]

\* download_reports, "Generate PDF Report"
GeneratePdf ==
    /\ batch.pc = "stored"
    /\ batch.processing_results # <<>>
    /\ batch' = [batch EXCEPT
                    !.report = generate_batch_report(batch.processing_results)]
    /\ UNCHANGED <<self, locals, history, other, http>>

\* download_reports, "Generate CSV Report"
GenerateCsv ==
    /\ batch.pc = "stored"
    /\ batch.processing_results # <<>>
    /\ batch' = [batch EXCEPT
                    !.report = generate_summary_csv(batch.processing_results)]
    /\ UNCHANGED <<self, locals, history, other, http>>

InitBatch ==
    /\ self = init_self
    /\ pc = "idle"
    /\ sheet = NoSheet
    /\ answer_key = EmptyDict
    /\ image = NoImage
    /\ processed_image = NoBinary
    /\ bubbles = <<>>
    /\ bubble_rows = <<>>
    /\ marked_answers = EmptyDict
    /\ result = NoResult
    /\ raised = "none"
    /\ history = <<>>
    /\ other = IdleCall
    /\ http = IdleHttp
    /\ \E key \in {EmptyDict, pattern_key(1)},
          files \in SeqsUpTo(FileNames, MaxFiles) :
          batch = [pc |-> "ready", answer_key |-> key,
                   uploaded_files |-> files, i |-> 0, results |-> <<>>,
                   log |-> <<>>, temp |-> {}, processing_results |-> <<>>,
                   report |-> NoReport]

NextBatch ==
    \/ StartBatch \/ ProcessSheet \/ StoreResults
    \/ GeneratePdf \/ GenerateCsv

SpecBatch == InitBatch /\ [][NextBatch]_vars

----------------------------------------------------------------------------
(* The batch page over a whole session: the answer key and the sheets are  *)
(* set, batches are run and the results are cleared, in any order; at most *)
(* MaxUploads sheets are uploaded at a time.                               *)

MaxUploads == 1

\* the page between two runs of process_all_sheets, whose locals are gone
page_idle(b) == [b EXCEPT !.pc = "ready", !.i = 0, !.results = <<>>,
                          !.log = <<>>]

OnPage == batch.pc \in {"ready", "stored"}

\* process_all_sheets has returned and the page waits for the next click
PageWaits ==
    /\ batch.pc = "stored"
    /\ batch' = page_idle(batch)
    /\ UNCHANGED <<self, locals, history, other, http>>

\* "st.session_state.answer_key = answer_key" (from a reference sheet, which
\* may give no answers) and "st.session_state.answer_key = answers"
SetAnswerKey ==
    /\ OnPage
    /\ \E key \in {EmptyDict, pattern_key(1)} :
          batch' = [page_idle(batch) EXCEPT !.answer_key = key]
    /\ UNCHANGED <<self, locals, history, other, http>>

\* upload_student_sheets: "if uploaded_files: ...
\* st.session_state.uploaded_files = uploaded_files"
UploadSheets ==
    /\ OnPage
    /\ \E files \in SeqsUpTo(FileNames, MaxUploads) \ {<<>>} :
          batch' = [page_idle(batch) EXCEPT !.uploaded_files = files]
    /\ UNCHANGED <<self, locals, history, other, http>>

\* the mutant of ClearAll that leaves the answer key in the session
ClearResultsOnly ==
    /\ OnPage
    /\ batch.processing_results # <<>>
    /\ batch' = [page_idle(batch) EXCEPT !.processing_results = <<>>,
                                         !.uploaded_files = <<>>]
    /\ UNCHANGED <<self, locals, history, other, http>>

\* download_reports, "Clear All Results": the button is on the page only
\* while processing_results is not empty; uploaded_files is <<>> when the
\* session has no such attribute
ClearAll ==
    /\ OnPage
    /\ batch.processing_results # <<>>
    /\ batch' = [page_idle(batch) EXCEPT !.processing_results = <<>>,
                                         !.answer_key = EmptyDict,
                                         !.uploaded_files = <<>>]
    /\ UNCHANGED <<self, locals, history, other, http>>

InitSession ==
    /\ self = init_self
    /\ pc = "idle"
    /\ sheet = NoSheet
    /\ answer_key = EmptyDict
    /\ image = NoImage
    /\ processed_image = NoBinary
    /\ bubbles = <<>>
    /\ bubble_rows = <<>>
    /\ marked_answers = EmptyDict
    /\ result = NoResult
    /\ raised = "none"
    /\ history = <<>>
    /\ other = IdleCall
    /\ http = IdleHttp
    /\ batch = [pc |-> "ready", answer_key |-> EmptyDict,
                uploaded_files |-> <<>>, i |-> 0, results |-> <<>>,
                log |-> <<>>, temp |-> {}, processing_results |-> <<>>,
                   report |-> NoReport]

NextSession ==
    \/ StartBatch \/ ProcessSheet \/ StoreResults \/ PageWaits
    \/ SetAnswerKey \/ UploadSheets \/ ClearAll

SpecSession == InitSession /\ [][NextSession]_vars

----------------------------------------------------------------------------
(* Claims about the bubble detector.                                       *)

\* _detect_bubbles has returned
DetectorReturned == pc = "analyze"

\* the contours the detector was given, by their place in the list
FoundAt == 1..Len(processed_image.contours)

BecameBubble(c) == \E i \in 1..Len(bubbles) : bubbles[i] = bubble_of(c)

\* the ratio w / h lies in [0.7, 1.3]
RatioInClosedRange(c) == 7 * c.h <= 10 * c.w /\ 10 * c.w <= 13 * c.h

\* C22: the detector rejects a contour for its area only when the area is
\* outside the closed band [20, 400]: a contour of area exactly 20 or
\* exactly 400 with an acceptable ratio becomes a bubble
C22_AreaBandIsClosed ==
    DetectorReturned =>
        \A i \in FoundAt :
            LET c == processed_image.contours[i]
            IN  (20 <= c.area /\ c.area <= 400 /\ RatioInClosedRange(c))
                    => BecameBubble(c)

\* the area filter as the detector applies it
AreaInsideBand(c) == 20 < c.area /\ c.area < 400

\* C23: a contour whose area is accepted becomes a bubble exactly when its
\* ratio w / h lies in [0.7, 1.3], 0.7 and 1.3 included; every bubble
\* returned passes both filters; the number of bubbles is not capped
C23_RatioRangeIsClosed ==
    DetectorReturned =>
        /\ \A i \in FoundAt :
              LET c == processed_image.contours[i]
              IN  AreaInsideBand(c) =>
                      (BecameBubble(c) <=> RatioInClosedRange(c))
        /\ \A i \in 1..Len(bubbles) :
              AreaInsideBand(bubbles[i]) /\ RatioInClosedRange(bubbles[i])
        /\ Len(bubbles) =
              Cardinality({i \in FoundAt :
                  /\ AreaInsideBand(processed_image.contours[i])
                  /\ RatioInClosedRange(processed_image.contours[i])})

\* contours of ratio exactly 0.7 and exactly 1.3 were found and both were
\* kept
C23_Witness ==
    /\ DetectorReturned
    /\ Len(processed_image.contours) = 2
    /\ processed_image.contours[1].w = 13 /\ processed_image.contours[1].h = 10
    /\ processed_image.contours[2].w = 7 /\ processed_image.contours[2].h = 10
    /\ Len(bubbles) = 2
    /\ bubbles[1].w = 7

----------------------------------------------------------------------------
(* Claims about the row grouper.                                           *)

\* _group_bubbles_by_rows has returned: called on its own, or in
\* _analyze_bubbles
GroupedAlone == pc = "grouped"
GroupedInPipeline == pc = "evaluate"

\* the index in the swept list of the first member of row k
RECURSIVE RowStart(_, _)
RowStart(rows, k) ==
    IF k = 1 THEN 1 ELSE RowStart(rows, k - 1) + Len(rows[k - 1])

\* the members of a list, as a set
Members(q) == {q[i] : i \in 1..Len(q)}

\* row k of rows is a stretch of the swept list: every later member of the
\* stretch is within the tolerance of the first one, and the bubble that
\* follows the stretch (the first of row k + 1) is not
StretchOf(list, rows, k) ==
    LET first == RowStart(rows, k)
        after == first + Len(rows[k])
    IN  /\ Len(rows[k]) >= 1
        /\ after <= Len(list) + 1
        /\ Members(rows[k]) = {list[i] : i \in first..(after - 1)}
        /\ \A i \in first..(after - 1) :
              Abs(list[i].y - list[first].y) < row_tolerance
        /\ after <= Len(list) =>
              /\ k < Len(rows)
              /\ Abs(list[after].y - list[first].y) >= row_tolerance

\* C19: in the sweep a bubble joins the current row exactly when its y is
\* less than 30 from the y of the row's first member; at 30 or more the row
\* is closed and the bubble starts the next row; the reference stays the
\* first member's y, so every member of an emitted row is within 30 of the
\* row's first-added bubble
C19_RowsAreStretchesWithinTolerance ==
    (GroupedAlone \/ GroupedInPipeline) =>
        /\ (bubbles = <<>>) = (bubble_rows = <<>>)
        /\ \A k \in 1..Len(bubble_rows) : StretchOf(bubbles, bubble_rows, k)

\* the sweep met a bubble 29 below the first (joined) and then one 30 below
\* the first (closed the row, though only 1 below the bubble before it)
C19_Witness ==
    /\ GroupedAlone
    /\ Len(bubbles) = 3
    /\ bubbles[1].y = 0 /\ bubbles[2].y = 29 /\ bubbles[3].y = 30
    /\ Len(bubble_rows) = 2
    /\ Len(bubble_rows[1]) = 2

\* the orders in which the members of a list can come
Orders(q) ==
    {[i \in 1..Len(q) |-> q[f[i]]] :
        f \in {g \in [1..Len(q) -> 1..Len(q)] :
                 \A i, j \in 1..Len(q) : g[i] = g[j] => i = j}}

\* C20 as stated: the grouper returns the same rows for every order of the
\* same bubbles
C20_GrouperIgnoresOrder ==
    GroupedAlone =>
        \A list \in Orders(bubbles) :
            group_bubbles_by_rows(list).rows = bubble_rows

\* C20 amended: in process_omr_sheet the rows are the same for every order
\* in which the contours are found, because _detect_bubbles sorts the
\* bubbles by (y, x) before the grouper sweeps them
C20_PipelineIgnoresFoundOrder ==
    GroupedInPipeline =>
        \A found \in Orders(processed_image.contours) :
            group_bubbles_by_rows(
                detect_bubbles(self,
                               [processed_image EXCEPT !.contours = found])
            ).rows = bubble_rows

\* the contours were found bottom-up and the rows still come top-down
C20_Witness ==
    /\ GroupedInPipeline
    /\ Len(processed_image.contours) = 2
    /\ processed_image.contours[1].y = 30
    /\ processed_image.contours[2].y = 0
    /\ Len(bubble_rows) = 2
    /\ bubble_rows[1][1].y = 0
    /\ bubble_rows[2][1].y = 30


\* C21: every row the grouper returns, the last one too, goes left to
\* right: the x of its bubbles never decreases, whatever order they were
\* added in
C21_RowsLeftToRight ==
    (GroupedAlone \/ GroupedInPipeline) =>
        \A k \in 1..Len(bubble_rows) :
            \A i \in 1..(Len(bubble_rows[k]) - 1) :
                bubble_rows[k][i].x <= bubble_rows[k][i + 1].x

\* two rows were swept right to left (x = 50 before x = 20 in each) and
\* both, the last included, came out left to right
C21_Witness ==
    /\ GroupedAlone
    /\ Len(bubbles) = 3
    /\ bubbles[1].x = 50 /\ bubbles[2].x = 50 /\ bubbles[3].x = 20
    /\ bubbles[1].y = 0 /\ bubbles[2].y = 30 /\ bubbles[3].y = 58
    /\ Len(bubble_rows) = 2
    /\ Len(bubble_rows[2]) = 2
    /\ bubble_rows[2][1].x = 20 /\ bubble_rows[2][2].x = 50

\* the row sizes added up
RECURSIVE SizesSum(_)
SizesSum(rows) ==
    IF rows = <<>> THEN 0 ELSE Len(Head(rows)) + SizesSum(Tail(rows))

\* the places (row, position) where bubble b stands in the rows
PlacesOf(b, rows) ==
    UNION {{<<k, i>> : i \in {j \in 1..Len(rows[k]) : rows[k][j] = b}} :
              k \in 1..Len(rows)}

\* C24: the grouper partitions its input: each input bubble is in exactly
\* one row, once; no row is empty; the row sizes add up to the number of
\* input bubbles; no bubbles give no rows
C24_RowsPartitionInput ==
    (GroupedAlone \/ GroupedInPipeline) =>
        /\ \A b \in Members(bubbles) : Cardinality(PlacesOf(b, bubble_rows)) = 1
        /\ \A k \in 1..Len(bubble_rows) :
              /\ bubble_rows[k] # <<>>
              /\ Members(bubble_rows[k]) \subseteq Members(bubbles)
        /\ SizesSum(bubble_rows) = Len(bubbles)
        /\ bubbles = <<>> => bubble_rows = <<>>

\* three bubbles went into a row of two and a last row of one
C24_Witness ==
    /\ GroupedAlone
    /\ Len(bubbles) = 3
    /\ Len(bubble_rows) = 2
    /\ Len(bubble_rows[1]) = 2
    /\ bubble_rows[2] = <<bubbles[3]>>

\* no bubbles were given and no rows came back
C24_WitnessEmpty == GroupedAlone /\ bubbles = <<>> /\ bubble_rows = <<>>

----------------------------------------------------------------------------
(* Claims about the stand-in processor.                                    *)

MockDone == pc = "mock_done"

\* C16: for every answer key the mock's process_omr_sheet returns the score,
\* total, percentage, marked_answers, correct_answers and result that the
\* real processor's _evaluate_answers returns for that key and the mock's
\* fixed table of marked answers
C16_MockMeetsEvaluationContract ==
    MockDone =>
        \A real \in {evaluate_answers(mock_marked_answers, answer_key)} :
            /\ real.exc = "none"
            /\ result.score = real.value.score
            /\ result.total = real.value.total
            /\ result.percentage = real.value.percentage
            /\ result.marked_answers = real.value.marked_answers
            /\ result.correct_answers = real.value.correct_answers
            /\ result.result = real.value.result

\* the mock has answered a key with a question it marks rightly, one it
\* leaves blank and one its table does not hold: 1 of 3, 33.33
C16_Witness ==
    /\ MockDone
    /\ answer_key = [q \in {"1", "6", "11"} |-> "A"]
    /\ result.score = 1
    /\ result.total = 3
    /\ result.percentage = 3333
    /\ result.result["6"] = "not_attempted"
    /\ result.result["11"] = "not_attempted"
    /\ result.marked_answers["11"] = ""


----------------------------------------------------------------------------
(* Claims about calls that share a processor.                              *)

Returned == pc \in {"done", "raised"}

\* the calls that have finished: those in history and the current one
FinishedCalls ==
    Members(history) \cup
    (IF Returned
     THEN {finished_call(sheet, answer_key, raised, result)} ELSE {})

\* the fields of an EvaluationResult that C14 names
SameEvaluation(r1, r2) ==
    /\ r1.score = r2.score
    /\ r1.total = r2.total
    /\ r1.percentage = r2.percentage
    /\ r1.marked_answers = r2.marked_answers
    /\ r1.correct_answers = r2.correct_answers
    /\ r1.result = r2.result

\* C14: two calls of process_omr_sheet on the same image and the same answer
\* key, whatever calls come between them, end the same way and with the
\* same score, total, percentage, marked_answers, correct_answers, result
C14_SameInputsSameResult ==
    \A a, b \in FinishedCalls :
        (a.sheet = b.sheet /\ a.answer_key = b.answer_key) =>
            /\ a.raised = b.raised
            /\ SameEvaluation(a.result, b.result)

\* the processor has scored a sheet 1 of 1, then served another call, then
\* scored the first sheet with the first key again
C14_Witness ==
    /\ pc = "done"
    /\ Len(history) = 2
    /\ history[1].sheet = sheet /\ history[1].answer_key = answer_key
    /\ history[2].sheet # sheet
    /\ history[1].result.score = 1
    /\ result.score = 1
    /\ result.marked_answers = [q \in {"1"} |-> "C"]

\* a call run to its end with no other call beside it
RECURSIVE run_alone(_)
run_alone(c) == IF CallRunning(c) THEN run_alone(call_step(c)) ELSE c

\* the first call's locals, as a record
first == [pc |-> pc, sheet |-> sheet, answer_key |-> answer_key,
          image |-> image, processed_image |-> processed_image,
          bubbles |-> bubbles, bubble_rows |-> bubble_rows,
          marked_answers |-> marked_answers, result |-> result,
          raised |-> raised]

EndsAsAlone(c) ==
    ~CallRunning(c) =>
        \A alone \in {run_alone(call_start(c.sheet, c.answer_key))} :
            /\ c.pc = alone.pc
            /\ c.raised = alone.raised
            /\ c.result = alone.result

\* C15: however the stages of two calls on one processor interleave, each
\* call ends as it ends when run alone, and no step changes the processor's
\* fields or a call's answer key
C15_CallsDoNotInterfere ==
    /\ [](EndsAsAlone(first) /\ EndsAsAlone(other) /\ self = init_self)
    /\ [][/\ self' = self
          /\ answer_key' = answer_key
          /\ other'.answer_key = other.answer_key]_vars

\* both calls have ended, on different sheets, one scoring 1 of 1 and the
\* other finding nothing
C15_Witness ==
    /\ pc = "done" /\ other.pc = "done"
    /\ sheet # other.sheet
    /\ answer_key = other.answer_key
    /\ result.score = 1
    /\ other.result.score = 0
    /\ other.result.marked_answers = [q \in {"1"} |-> ""]
    /\ self = init_self


----------------------------------------------------------------------------
(* Claims about the /upload handler.                                       *)

\* the last request named an exam_key that has no answer-key file
KeyMissing ==
    /\ http.requests > 0
    /\ http.request.exam_key \notin DOMAIN http.answer_keys

\* the last request passed the three checks that come before the key
PassedValidation ==
    /\ ~content_type_refused(http.request.content_type)
    /\ suffix_lower(http.request.suffix) \in allowed_extensions
    /\ http.request.size <= max_upload_bytes

NothingProcessed ==
    /\ http.requests \notin http.invoked
    /\ http.requests \notin http.results

\* C13 as stated: a request whose exam_key has no answer-key file is
\* answered 404, the processor is not invoked for it and no result file is
\* written
C13_MissingKeyIs404 ==
    KeyMissing => http.response.status = 404 /\ NothingProcessed

\* C13 amended: for a request whose exam_key has no answer-key file the
\* processor is not invoked and no result file is written; the answer is
\* 404 when the request passed validation and its file was saved, 400 when
\* validation refused it, 500 when the file could not be saved
C13_MissingKeyNeverProcessed ==
    KeyMissing =>
        /\ NothingProcessed
        /\ http.response.status \in {400, 404, 500}
        /\ http.response.status = 400 <=> ~PassedValidation
        /\ http.response.status = 404 <=>
              PassedValidation /\ http.requests \in http.uploads
        /\ http.response.status = 500 <=>
              PassedValidation /\ http.requests \notin http.uploads

\* a valid image was sent for exam2 after exam1 had been served: 404, the
\* one result file is the first request's
C13_Witness ==
    /\ KeyMissing
    /\ PassedValidation
    /\ http.requests = 2
    /\ http.response.status = 404
    /\ http.invoked = {1}
    /\ http.results = {1}
    /\ 2 \in http.uploads

\* the last request is one that validation has to refuse: its content type
\* is no image type, its extension is none of .jpg, .jpeg, .png, or its
\* body is larger than 5 MB
BodyLimit == 5 * 1024 * 1024

Invalid(request) ==
    \/ request.content_type.type # "image"
    \/ suffix_lower(request.suffix) \notin {".jpg", ".jpeg", ".png"}
    \/ request.size > BodyLimit

\* C26: validation runs before any side effect: a request with a content
\* type that is not image/*, an extension other than .jpg/.jpeg/.png or a
\* body above 5 MB is answered 400, and for it no file is written to
\* uploads, no answer key is read and the processor is not invoked; a body
\* of exactly 5 MB is not refused
C26_ValidationBeforeSideEffects ==
    http.requests > 0 =>
        /\ Invalid(http.request) =>
              /\ http.response.status = 400
              /\ http.requests \notin http.saved
              /\ http.requests \notin http.uploads
              /\ http.requests \notin http.keys_read
              /\ http.requests \notin http.invoked
              /\ http.requests \notin http.results
        /\ ~Invalid(http.request) => http.response.status # 400

\* an image of 5 MB and one byte is refused after an image of exactly 5 MB
\* was processed
C26_Witness ==
    /\ http.requests = 2
    /\ http.request.content_type.type = "image"
    /\ http.request.suffix = ".JPG"
    /\ http.request.size = BodyLimit + 1
    /\ http.response.status = 400
    /\ http.saved = {1}
    /\ http.keys_read = {1}
    /\ http.invoked = {1}
    /\ http.results = {1}

\* C27: every request that saved the uploaded image to the uploads directory
\* has removed that file again by the time its response is returned, on
\* every outcome: success, answer key not found (404), processing failure
\* (500)
C27_SavedFileIsRemoved ==
    \A id \in http.saved : id \notin http.uploads

\* C29: an HTTPException raised inside the handler (400 validation, 404 key
\* not found) reaches the client with its own status code and is never
\* rewrapped; every other exception (key file not valid JSON, processor
\* failure, result file write failure) becomes a 500 response; no request
\* ends with a non-HTTP exception escaping the handler
C29_StatusesPassThrough ==
    http.requests > 0 =>
        /\ http.response.raised \in {"none", "HTTPException"}
        /\ http.response.status \in {200, 400, 404, 500}
        /\ Invalid(http.request) => http.response.status = 400
        /\ (~Invalid(http.request) /\ KeyMissing
                /\ http.requests \in http.saved)
              => http.response.status = 404
        /\ (http.requests \in http.keys_read
                /\ http.requests \notin http.results)
              => http.response.status = 500
        /\ http.response.status = 200 <=> http.response.raised = "none"
        /\ http.response.status = 200 <=> http.requests \in http.results

\* a 404 and a 500 of the processor, one after the other: the key file of
\* exam1 holds a list, the second request names exam2
C29_Witness ==
    /\ http.requests = 2
    /\ http.invoked = {1}
    /\ http.results = {}
    /\ KeyMissing
    /\ http.response.status = 404
    /\ http.response.raised = "HTTPException"


----------------------------------------------------------------------------
(* Claims about batch processing.                                          *)

BatchStored == batch.pc = "stored"

IsErrorPlaceholder(entry, name) ==
    /\ DOMAIN entry = {"filename", "error", "student_info", "omr_result"}
    /\ entry.filename = name
    /\ entry.error # ""
    /\ entry.omr_result = None

\* C12: a failure on one uploaded sheet never aborts the batch: the stored
\* results hold exactly one entry per uploaded file, in upload order, a
\* failed file has an error placeholder (its filename, the error text,
\* omr_result None), and the files after a failed one are still processed
C12_OneEntryPerFile ==
    BatchStored =>
        /\ Len(batch.log) = Len(batch.uploaded_files)
        /\ Len(batch.processing_results) = Len(batch.uploaded_files)
        /\ \A i \in 1..Len(batch.uploaded_files) :
              /\ batch.processing_results[i].filename = batch.uploaded_files[i]
              /\ IF batch.log[i] = "processed"
                 THEN batch.processing_results[i].omr_result # None
                 ELSE IsErrorPlaceholder(batch.processing_results[i],
                                         batch.uploaded_files[i])

----------------------------------------------------------------------------
(* Claims about the batch page over a session, checked under SpecSession.  *)

BatchStarts == batch.pc = "ready" /\ batch'.pc = "loop"

ResultsCleared ==
    batch.processing_results # <<>> /\ batch'.processing_results = <<>>

\* C25: process_all_sheets starts only in a session whose answer key is not
\* empty and that holds at least one uploaded sheet, so total_files > 0;
\* "Clear All Results" empties processing_results and answer_key and removes
\* uploaded_files, so that no batch starts before both are set again
C25_StartsOnlyWhenReady ==
    [][/\ BatchStarts => /\ batch.answer_key # EmptyDict
                         /\ Len(batch.uploaded_files) > 0
                         /\ batch'.answer_key = batch.answer_key
                         /\ batch'.uploaded_files = batch.uploaded_files
       /\ ResultsCleared => /\ batch'.answer_key = EmptyDict
                            /\ batch'.uploaded_files = <<>>
                            /\ batch'.pc = "ready"]_vars

\* a batch that starts after results were cleared: nothing is stored any
\* more, and a temporary file of the earlier batch is still there
C25_Witness ==
    /\ batch.pc = "loop"
    /\ batch.processing_results = <<>>
    /\ batch.temp # {}
    /\ batch.i = 0

\* C28: when process_all_sheets finishes, none of the temporary
\* student_*.jpg files it wrote remains in the temp directory, both for
\* sheets processed successfully and for sheets whose processing raised
C28_NoTempFileRemains ==
    BatchStored => batch.temp = {}

\* a report was asked for, and what the result list holds
ReportMade == batch.pc = "stored" /\ batch.report # NoReport

NonNullEntries ==
    {i \in 1..Len(batch.processing_results) :
        batch.processing_results[i].omr_result # None}

HasPlaceholder ==
    \E i \in 1..Len(batch.processing_results) :
        batch.processing_results[i].omr_result = None

\* C30: the report generator accepts the result list exactly as
\* process_all_sheets stores it: for a list with error placeholders (entries
\* with omr_result = None) generate_batch_report and generate_summary_csv
\* complete without raising, and every section (summary statistics,
\* detailed table, individual reports, CSV rows) is computed only from the
\* entries that have a non-null omr_result
C30_ReportsAcceptPlaceholders ==
    ReportMade =>
        /\ batch.report.exc = "none"
        /\ batch.report.rows = NonNullEntries
        /\ batch.report.kind = "pdf" => batch.report.summary = NonNullEntries

====
